---- MODULE Spec2Model ----
(***************************************************************************)
(* A model of the Avellaneda-Stoikov market-making engine: the tick        *)
(* callback and service loop of the live engine, the position and P&L      *)
(* tracker, the EWMA volatility estimator and the quote generator.         *)
(*                                                                         *)
(* Numbers.  The program computes in IEEE doubles.  The model computes in  *)
(* decimal fixed point: an integer n stands for the real n / PS, and every *)
(* multiplication or division rounds toward zero to that grid, as every    *)
(* double operation rounds to the double grid.  Products are formed        *)
(* without exceeding the range of the model checker's integers (MulDivQR). *)
(***************************************************************************)
EXTENDS Integers, Sequences, FiniteSets, TLC

\* ------------------------------------------------------------------------
\* Fixed-point arithmetic standing for the program's double arithmetic
\* ------------------------------------------------------------------------

\* One unit of the grid is 1/PS.
PS == 10 * 1000

\* The largest integer the model's arithmetic may form.
IntMax == (2^30 - 1) * 2 + 1

Abs(x) == IF x < 0 THEN -x ELSE x

Sgn(x) == IF x < 0 THEN -1 ELSE IF x > 0 THEN 1 ELSE 0

Min(x, y) == IF x <= y THEN x ELSE y

Max(x, y) == IF x >= y THEN x ELSE y

\* The radix of the long multiplication by which MulDivQR divides by c: the
\* larger one where radix * c stays in range.
Radix(c) == IF c < 2^23 THEN 2^8 ELSE 2

\* One step of long multiplication in radix R: from h = <<q, r>> with
\* a * (b \div R) = q * c + r to the <<q, r>> of a * b.
MulDivStep(h, a, b, c, R) ==
    LET d  == b % R
        t1 == R * h[2]
        t2 == d * (a % c)
        r3 == (t1 % c) + (t2 % c)
        c3 == IF r3 >= c THEN 1 ELSE 0
    IN  <<R * h[1] + d * (a \div c) + (t1 \div c) + (t2 \div c) + c3, r3 - c3 * c>>

\* <<q, r>> with a * b = q * c + r and 0 <= r < c, for a, b >= 0 and c > 0,
\* by long multiplication: no intermediate value leaves the integer range as
\* long as q does not and c <= 2^30.  (The set binds the value of the inner
\* product, so that it is computed once.)
RECURSIVE MulDivQR(_, _, _)
MulDivQR(a, b, c) ==
    IF b = 0 \/ a = 0 THEN <<0, 0>>
    ELSE IF a <= IntMax \div b THEN <<(a * b) \div c, (a * b) % c>>
    ELSE CHOOSE qr \in {MulDivStep(h, a, b, c, Radix(c)) :
                          h \in {MulDivQR(a, b \div Radix(c), c)}} : TRUE

\* a * b / c rounded toward zero, for any signs of a and b, c > 0.
MulDiv(a, b, c) == Sgn(a) * Sgn(b) * MulDivQR(Abs(a), Abs(b), c)[1]

\* The double product a * b.
FMul(a, b) == MulDiv(a, b, PS)

\* The double quotient a / b, b # 0.
FDiv(a, b) == Sgn(b) * MulDiv(a, PS, Abs(b))

\* The decimal literal whole.frac4 (frac4 in 1/10000), e.g. Dec(0, 100) = 0.01.
Dec(whole, frac4) == whole * PS + frac4

\* x / 2.0
Half(x) == Sgn(x) * (Abs(x) \div 2)

\* Small quantities are kept on finer grids, so that they do not round to 0:
\* gamma * sigma^2 in units of 1/GS, variances, log returns and logarithms in
\* units of 1/VS.
GS == 1000 * 1000

VS == 1000 * 1000 * 1000

\* std::log(num / den) in units of 1/VS, for num, den > 0 with num + den in
\* range: 2 * atanh(y) with y = (num - den) / (num + den), by its series up to
\* y^7.  Exact to the grid while the ratio stays within a factor of 2 of 1.
Ln(num, den) ==
    LET y  == MulDiv(num - den, VS, num + den)
        y2 == MulDiv(y, y, VS)
        y3 == MulDiv(y2, y, VS)
        y5 == MulDiv(y3, y2, VS)
        y7 == MulDiv(y5, y2, VS)
    IN  2 * (y + y3 \div 3 + y5 \div 5 + y7 \div 7)

\* The largest s in lo .. hi with s * s <= x * k (lo satisfies it), by bisection.
RECURSIVE SqrtSearch(_, _, _, _)
SqrtSearch(lo, hi, x, k) ==
    IF lo = hi THEN lo
    ELSE LET m  == (lo + hi + 1) \div 2
             qr == MulDivQR(m, m, k)
         IN  IF qr[1] < x \/ (qr[1] = x /\ qr[2] = 0)
             THEN SqrtSearch(m, hi, x, k)
             ELSE SqrtSearch(lo, m - 1, x, k)

\* std::sqrt(x * k) in units of 1/PS, for x >= 0 in units of 1/VS and a whole
\* number k; results up to 2^25 / PS.
SqrtTimes(x, k) == SqrtSearch(0, 2^25, x, k \div (VS \div (PS * PS)))

\* The doubles that are no numbers: NaN and the two infinities, each standing
\* as a value beyond every number the model forms.
NaN == -IntMax

PosInf == IntMax

NegInf == -(IntMax - 1)

IsFinite(x) == x \notin {NaN, PosInf, NegInf}

\* std::log(price / last) in units of 1/VS, for any doubles price and last on
\* the grid: x/0 is an infinity or NaN, log(0) is -infinity, the logarithm of
\* a negative number NaN.
StdLogRatio(price, last) ==
    IF last = 0 THEN (IF price > 0 THEN PosInf ELSE NaN)
    ELSE IF price = 0 THEN NegInf
    ELSE IF Sgn(price) # Sgn(last) THEN NaN
    ELSE Ln(Abs(price), Abs(last))

\* x * x for a double x in units of 1/VS.
Squared(x) ==
    IF x = NaN THEN NaN
    ELSE IF x \in {PosInf, NegInf} THEN PosInf
    ELSE MulDiv(x, x, VS)

\* a * x + (1 - a) * v for a weight 0 < a < 1 on the grid and doubles x >= 0
\* and v in units of 1/VS.
WeightedSum(a, x, v) ==
    IF x = NaN \/ v = NaN THEN NaN
    ELSE IF x = PosInf THEN (IF v = NegInf THEN NaN ELSE PosInf)
    ELSE IF ~IsFinite(v) THEN v
    ELSE MulDiv(a, x, PS) + MulDiv(Dec(1, 0) - a, v, PS)

\* std::sqrt(x * k): NaN for a negative x.
StdSqrtTimes(x, k) ==
    IF x = NaN \/ x = NegInf THEN NaN
    ELSE IF x = PosInf THEN PosInf
    ELSE IF x < 0 THEN NaN
    ELSE SqrtTimes(x, k)

\* std::max(a, b) = (a < b) ? b : a, for a double a and a number b: a
\* comparison with NaN is false, so a NaN a is returned.
StdMax(a, b) ==
    IF a = NaN \/ a = PosInf THEN a
    ELSE IF a = NegInf THEN b
    ELSE Max(a, b)

\* The double sum a + b: NaN of a NaN and of infinities of opposite signs.
StdSum(a, b) ==
    IF a = NaN \/ b = NaN THEN NaN
    ELSE IF ~IsFinite(a) THEN (IF IsFinite(b) \/ b = a THEN a ELSE NaN)
    ELSE IF ~IsFinite(b) THEN b
    ELSE a + b

\* The double -a.
StdNeg(a) ==
    IF a = NaN THEN NaN
    ELSE IF a = PosInf THEN NegInf
    ELSE IF a = NegInf THEN PosInf
    ELSE -a

\* The double a / 2.0.
StdHalf(a) == IF IsFinite(a) THEN Half(a) ELSE a

\* ------------------------------------------------------------------------
\* Symbols (Symbol.h)
\* ------------------------------------------------------------------------

\* The indices of the supported symbols: BTC = 0, ETH = 1, SOL = 2, BNB = 3.
SYMBOL_COUNT == 4

UNKNOWN == 255

Slots == 0 .. (SYMBOL_COUNT - 1)

string_to_symbol(symbol_str) ==
    IF symbol_str \in {"BTCUSDT", "BTC"} THEN 0
    ELSE IF symbol_str \in {"ETHUSDT", "ETH"} THEN 1
    ELSE IF symbol_str \in {"SOLUSDT", "SOL"} THEN 2
    ELSE IF symbol_str \in {"BNBUSDT", "BNB"} THEN 3
    ELSE UNKNOWN

\* ------------------------------------------------------------------------
\* Fill and Position (Fill.h, Position.h, Position.cpp)
\* ------------------------------------------------------------------------

\* Fill(sym, buy, price, size, id, fees)
Fill(sym, buy, price, size, id, fees) ==
    [symbol |-> sym, is_buy |-> buy, price |-> price, size |-> size,
     order_id |-> id, fees |-> fees]

\* Position(sym, avg_price, real_pnl, unreal_pnl): quantity starts at 0.
Position(sym, avg_price, real_pnl, unreal_pnl) ==
    [symbol |-> sym, quantity |-> 0, average_price |-> avg_price,
     realized_pnl |-> real_pnl, unrealized_pnl |-> unreal_pnl]

\* OpenPosition with the fill's fee taken from realized P&L.
OpenPosition_Fee(pos, fill, quantity) ==
    [pos EXCEPT !.quantity = quantity, !.average_price = fill.price,
                !.realized_pnl = @ - fill.fees]

\* OpenPosition that forgets to set the entry price.
OpenPosition_NoAvg(pos, fill, quantity) ==
    [pos EXCEPT !.quantity = quantity]

\* update_position, "Opening a new position" (old_quantity == 0).
OpenPosition(pos, fill, quantity) ==
    [pos EXCEPT !.quantity = quantity, !.average_price = fill.price]

\* AddToPosition with the plain mean of the two prices in place of the
\* size-weighted one.
AddToPosition_SimpleMean(pos, fill, quantity) ==
    [pos EXCEPT
        !.quantity = quantity,
        !.average_price = (pos.average_price + fill.price) \div 2]

\* update_position, "Adding to existing position - weighted average".
AddToPosition(pos, fill, quantity) ==
    [pos EXCEPT
        !.quantity = quantity,
        !.average_price =
            FDiv(FMul(Abs(pos.quantity), pos.average_price)
                   + FMul(fill.size, fill.price),
                 Abs(quantity))]

\* ReducePosition that clears average_price when the fill closes the position.
ReducePosition_ZeroAvgOnClose(pos, fill, quantity) ==
    LET closed_size == Min(Abs(pos.quantity), fill.size)
    IN  [pos EXCEPT
            !.quantity = quantity,
            !.realized_pnl =
                IF pos.quantity > 0
                THEN @ + FMul(closed_size, fill.price - pos.average_price)
                ELSE @ + FMul(closed_size, pos.average_price - fill.price),
            !.average_price =
                IF Abs(pos.quantity) < fill.size THEN fill.price
                ELSE IF quantity = 0 THEN 0 ELSE @]

\* ReducePosition that realizes P&L on the whole fill size, not on the closed
\* portion.
ReducePosition_NoMin(pos, fill, quantity) ==
    [pos EXCEPT
        !.quantity = quantity,
        !.realized_pnl =
            IF pos.quantity > 0
            THEN @ + FMul(fill.size, fill.price - pos.average_price)
            ELSE @ + FMul(fill.size, pos.average_price - fill.price),
        !.average_price =
            IF Abs(pos.quantity) < fill.size THEN fill.price ELSE @]

\* update_position, "Reducing or flipping position".
ReducePosition(pos, fill, quantity) ==
    LET old_quantity  == pos.quantity
        old_avg_price == pos.average_price
        closed_size   == Min(Abs(old_quantity), fill.size)
    IN  [pos EXCEPT
            !.quantity = quantity,
            !.realized_pnl =
                IF old_quantity > 0
                THEN @ + FMul(closed_size, fill.price - old_avg_price)
                ELSE @ + FMul(closed_size, old_avg_price - fill.price),
            !.average_price =
                IF Abs(old_quantity) < fill.size THEN fill.price ELSE @]

\* Position::update_position(fill): the new value of the position.  The fill's
\* fees field is not read.
update_position(pos, fill) ==
    LET old_quantity == pos.quantity
        quantity     == IF fill.is_buy THEN old_quantity + fill.size
                        ELSE old_quantity - fill.size
    IN  IF old_quantity = 0
        THEN OpenPosition(pos, fill, quantity)
        ELSE IF (old_quantity > 0 /\ fill.is_buy) \/ (old_quantity < 0 /\ ~fill.is_buy)
        THEN AddToPosition(pos, fill, quantity)
        ELSE ReducePosition(pos, fill, quantity)

\* update_unrealized_pnl with the short branch's difference the wrong way round.
update_unrealized_pnl_ShortSign(pos, current_price) ==
    IF pos.quantity > 0
    THEN [pos EXCEPT !.unrealized_pnl =
                        FMul(pos.quantity, current_price - pos.average_price)]
    ELSE IF pos.quantity < 0
    THEN [pos EXCEPT !.unrealized_pnl =
                        FMul(Abs(pos.quantity), current_price - pos.average_price)]
    ELSE [pos EXCEPT !.unrealized_pnl = 0]

\* Position::update_unrealized_pnl(current_price): the new value of the position.
update_unrealized_pnl(pos, current_price) ==
    IF pos.quantity > 0
    THEN [pos EXCEPT !.unrealized_pnl =
                        FMul(pos.quantity, current_price - pos.average_price)]
    ELSE IF pos.quantity < 0
    THEN [pos EXCEPT !.unrealized_pnl =
                        FMul(Abs(pos.quantity), pos.average_price - current_price)]
    ELSE [pos EXCEPT !.unrealized_pnl = 0]

\* ------------------------------------------------------------------------
\* PnLTracker (PnLTracker.cpp): a tracker value is the record
\* [positions_, realized_pnl_, unrealized_pnl_]
\* ------------------------------------------------------------------------

\* The sum of one field over the slots 0 .. n-1 of the position table, added
\* in index order as the loops of update_fill and update_market_price add it.
RECURSIVE SumSlots(_, _, _)
SumSlots(table, field, n) ==
    IF n = 0 THEN 0
    ELSE SumSlots(table, field, n - 1)
           + (IF field = "realized" THEN table[n - 1].realized_pnl
              ELSE table[n - 1].unrealized_pnl)

\* PnLTracker::PnLTracker()
PnLTracker ==
    [realized_pnl_   |-> 0,
     unrealized_pnl_ |-> 0,
     positions_      |-> [i \in Slots |->
                            Position(CASE i = 0 -> "BTCUSDT" [] i = 1 -> "ETHUSDT"
                                       [] i = 2 -> "SOLUSDT" [] OTHER -> "BNBUSDT",
                                     0, 0, 0)]]

\* update_fill that takes the realized P&L of the filled position for the
\* total.
update_fill_OwnSlot(tr, f) ==
    LET sym == string_to_symbol(f.symbol)
    IN  IF sym = UNKNOWN THEN tr
        ELSE LET table == [tr.positions_ EXCEPT ![sym] = update_position(@, f)]
             IN  [tr EXCEPT !.positions_ = table,
                            !.realized_pnl_ = table[sym].realized_pnl]

\* PnLTracker::update_fill(fill): the new value of the tracker
update_fill(tr, f) ==
    LET sym == string_to_symbol(f.symbol)
    IN  IF sym = UNKNOWN THEN tr
        ELSE LET table == [tr.positions_ EXCEPT ![sym] = update_position(@, f)]
             IN  [tr EXCEPT !.positions_ = table,
                            !.realized_pnl_ = SumSlots(table, "realized", SYMBOL_COUNT)]

\* update_market_price that returns before marking, as it does for an unknown
\* symbol.
update_market_price_Dropped(tr, symbol, price) == tr

\* update_market_price that marks every slot of the table at the price given
\* for one symbol.
update_market_price_AllSlots(tr, symbol, price) ==
    LET sym == string_to_symbol(symbol)
    IN  IF sym = UNKNOWN THEN tr
        ELSE LET table == [i \in Slots |->
                             update_unrealized_pnl(tr.positions_[i], price)]
             IN  [tr EXCEPT !.positions_ = table,
                            !.unrealized_pnl_ = SumSlots(table, "unrealized", SYMBOL_COUNT)]

\* PnLTracker::update_market_price(symbol, price), both overloads: the new
\* value of the tracker
update_market_price(tr, symbol, price) ==
    LET sym == string_to_symbol(symbol)
    IN  IF sym = UNKNOWN THEN tr
        ELSE LET table == [tr.positions_ EXCEPT ![sym] = update_unrealized_pnl(@, price)]
             IN  [tr EXCEPT !.positions_ = table,
                            !.unrealized_pnl_ = SumSlots(table, "unrealized", SYMBOL_COUNT)]

\* PnLTracker::get_total_pnl()
get_total_pnl(tr) == tr.realized_pnl_ + tr.unrealized_pnl_

\* PnLTracker::get_position(symbol): an empty Position for an unknown symbol
get_position(tr, symbol) ==
    LET sym == string_to_symbol(symbol)
    IN  IF sym = UNKNOWN THEN Position("", 0, 0, 0) ELSE tr.positions_[sym]

\* ------------------------------------------------------------------------
\* Quote and MarketTick (Quote.h, MarketTick.h)
\* ------------------------------------------------------------------------

Quote(sym, bid, ask, bid_sz, ask_sz, id) ==
    [symbol |-> sym, bid_price |-> bid, ask_price |-> ask,
     bid_size |-> bid_sz, ask_size |-> ask_sz, order_id |-> id]

\* Quote::spread()
spread(quote) == StdSum(quote.ask_price, StdNeg(quote.bid_price))

\* is_valid that asks for positive sizes only.
is_valid_SizesOnly(quote) ==
    /\ quote.bid_size > 0
    /\ quote.ask_size > 0

\* Quote::is_valid(): positive prices and sizes; ask > bid is not asked for.
\* No NaN and no negative infinity is > 0.
is_valid(quote) ==
    /\ quote.bid_price > 0
    /\ quote.ask_price > 0
    /\ quote.bid_size > 0
    /\ quote.ask_size > 0

MarketTick(sym, bid, ask, vol, volatility) ==
    [symbol |-> sym, bid_price |-> bid, ask_price |-> ask,
     volume |-> vol, volatility |-> volatility]

\* MarketTick::mid_price()
mid_price(tick) == Half(tick.bid_price + tick.ask_price)

\* ------------------------------------------------------------------------
\* AvellanedaStoikov (AvellanedaStoikov.cpp): an engine value is the record
\* [gamma_, sigma_, T_, kappa_, gamma_sigma_sq_, log_constant_, gamma_inv_],
\* gamma_sigma_sq_ in units of 1/GS and log_constant_ in units of 1/VS
\* ------------------------------------------------------------------------

\* AvellanedaStoikov::update_precomputed_constants()
update_precomputed_constants(eng) ==
    [eng EXCEPT
        !.gamma_sigma_sq_ =
            IF ~IsFinite(eng.sigma_) THEN eng.sigma_
            ELSE MulDiv(FMul(eng.gamma_, eng.sigma_), eng.sigma_, (PS * PS) \div GS),
        !.log_constant_ =
            Ln(VS \div 2 + MulDiv(eng.gamma_, VS \div 2, eng.kappa_), VS \div 2),
        !.gamma_inv_ = FDiv(Dec(2, 0), eng.gamma_)]

\* AvellanedaStoikov::AvellanedaStoikov()
AvellanedaStoikov ==
    update_precomputed_constants(
        [gamma_ |-> Dec(0, 1000), sigma_ |-> Dec(0, 500), T_ |-> Dec(60, 0),
         kappa_ |-> Dec(1, 5000),
         gamma_sigma_sq_ |-> 0, log_constant_ |-> 0, gamma_inv_ |-> 0])

\* set_risk_aversion that leaves the precomputed constants as they were.
set_risk_aversion_Stale(eng, gamma) == [eng EXCEPT !.gamma_ = gamma]

\* AvellanedaStoikov::set_risk_aversion(gamma)
set_risk_aversion(eng, gamma) ==
    update_precomputed_constants([eng EXCEPT !.gamma_ = gamma])

\* AvellanedaStoikov::set_time_horizon(T)
set_time_horizon(eng, T) ==
    update_precomputed_constants([eng EXCEPT !.T_ = T])

\* AvellanedaStoikov::set_inventory_penalty(kappa)
set_inventory_penalty(eng, kappa) ==
    update_precomputed_constants([eng EXCEPT !.kappa_ = kappa])

\* AvellanedaStoikov::set_volatility(sigma)
set_volatility(eng, sigma) ==
    update_precomputed_constants([eng EXCEPT !.sigma_ = sigma])

\* AvellanedaStoikov::get_volatility()
get_volatility(eng) == eng.sigma_

\* calculate_reservation_price that leaves the inventory out.
calculate_reservation_price_Neutral(eng, mid, inventory) == mid

\* AvellanedaStoikov::calculate_reservation_price(mid_price, inventory)
calculate_reservation_price(eng, mid, inventory) ==
    IF eng.gamma_sigma_sq_ = NaN THEN NaN
    ELSE IF ~IsFinite(eng.gamma_sigma_sq_)
    THEN (IF inventory = 0 THEN NaN
          ELSE IF Sgn(inventory) > 0 THEN StdNeg(eng.gamma_sigma_sq_)
          ELSE eng.gamma_sigma_sq_)
    ELSE mid - MulDiv(MulDiv(inventory, eng.gamma_sigma_sq_, PS), eng.T_, GS)

\* AvellanedaStoikov::calculate_optimal_spread(mid_price, volatility, inventory)
calculate_optimal_spread(eng, mid, volatility, inventory) ==
    LET vol == IF volatility > 0 THEN volatility ELSE eng.sigma_
    IN  IF vol = NaN THEN NaN
        ELSE IF ~IsFinite(vol) THEN PosInf
        ELSE MulDiv(MulDiv(FMul(eng.gamma_, vol), vol, (PS * PS) \div GS), eng.T_, GS)
               + MulDiv(eng.gamma_inv_, eng.log_constant_, VS)

\* AvellanedaStoikov::calculate_quotes(tick, inventory)
calculate_quotes(eng, tick, inventory) ==
    LET mid               == mid_price(tick)
        reservation_price == calculate_reservation_price(eng, mid, inventory)
        optimal_spread    == calculate_optimal_spread(eng, mid, tick.volatility,
                                                      inventory)
        bid_price         == StdSum(reservation_price,
                                    StdNeg(StdHalf(optimal_spread)))
        ask_price         == StdSum(reservation_price, StdHalf(optimal_spread))
    IN  Quote(tick.symbol, bid_price, ask_price, Dec(1, 0), Dec(1, 0), 0)

\* The loop of calculate_quotes_batch over the first n ticks: quotes pushed
\* back in index order.
RECURSIVE PushQuotes(_, _, _, _)
PushQuotes(eng, ticks, inventories, n) ==
    IF n = 0 THEN <<>>
    ELSE Append(PushQuotes(eng, ticks, inventories, n - 1),
                calculate_quotes(eng, ticks[n], inventories[n]))

\* calculate_quotes_batch without the test of the sizes: it quotes the ticks
\* that have an inventory and throws nothing.
calculate_quotes_batch_Shorter(eng, ticks, inventories) ==
    [thrown |-> "",
     quotes |-> PushQuotes(eng, ticks, inventories,
                           Min(Len(ticks), Len(inventories)))]

\* AvellanedaStoikov::calculate_quotes_batch(ticks, inventories): what it
\* throws ("" for nothing) and the vector it returns.
calculate_quotes_batch(eng, ticks, inventories) ==
    IF Len(ticks) # Len(inventories)
    THEN [thrown |-> "invalid_argument", quotes |-> <<>>]
    ELSE [thrown |-> "", quotes |-> PushQuotes(eng, ticks, inventories, Len(ticks))]

\* ------------------------------------------------------------------------
\* EWMACalculator (the engine's volatility estimator): an estimator value is
\* the record [alpha_, current_vol_, min_vol_, ewma_variance_, last_price_,
\* initialized_], ewma_variance_ in units of 1/VS
\* ------------------------------------------------------------------------

\* EWMACalculator::EWMACalculator(): ewma_variance_ and last_price_ are given
\* no value by the constructor; they hold whatever the arguments say.
EWMACalculator(variance_garbage, price_garbage) ==
    [alpha_ |-> Dec(0, 1500), current_vol_ |-> Dec(0, 500),
     min_vol_ |-> Dec(0, 200), initialized_ |-> FALSE,
     ewma_variance_ |-> variance_garbage, last_price_ |-> price_garbage]

\* The seconds of a trading year the estimator annualizes by.
SecondsPerYear == 252 * 24 * 60 * 60

\* update that takes the first price for a return as well: no latch.
update_NoLatch(est, price) ==
    LET log_return == StdLogRatio(price, est.last_price_)
        variance   == Squared(log_return)
        ewma       == WeightedSum(est.alpha_, variance, est.ewma_variance_)
    IN  [est EXCEPT
           !.initialized_ = TRUE,
           !.ewma_variance_ = ewma,
           !.current_vol_ = StdMax(StdSqrtTimes(ewma, SecondsPerYear), est.min_vol_),
           !.last_price_ = price]

\* EWMACalculator::update(price): the new value of the estimator.  The price
\* is not tested: any double is taken.
update(est, price) ==
    IF ~est.initialized_
    THEN [est EXCEPT !.last_price_ = price, !.initialized_ = TRUE]
    ELSE LET log_return == StdLogRatio(price, est.last_price_)
             variance   == Squared(log_return)
             ewma       == WeightedSum(est.alpha_, variance, est.ewma_variance_)
         IN  [est EXCEPT
                !.ewma_variance_ = ewma,
                !.current_vol_ = StdMax(StdSqrtTimes(ewma, SecondsPerYear),
                                        est.min_vol_),
                !.last_price_ = price]

\* ------------------------------------------------------------------------
\* Book-ticker frames and their parsing (FastJSONParser, callback_websocket)
\* ------------------------------------------------------------------------

\* The text of a decimal number: its digits read as one whole number,
\* scale = 10^(number of digits after the point), and the exponent written
\* after an "e", 0 if there is none.  "40000.50" is
\* Decimal(FALSE, 4000050, 100), "4.0e4" is DecimalExp(FALSE, 40, 10, 4).
DecimalExp(neg, digits, scale, exp) ==
    [neg |-> neg, digits |-> digits, scale |-> scale, exp |-> exp]

Decimal(neg, digits, scale) == DecimalExp(neg, digits, scale, 0)

\* FastJSONParser::fast_atof(str): sign * result / scale, result gathering
\* every digit and scale a factor 10 for each digit after the point.  It
\* stops at the first character that is no digit, so an exponent is not read.
fast_atof(str) ==
    (IF str.neg THEN -1 ELSE 1) * MulDiv(str.digits, PS, str.scale)

\* std::stod(str): the number the decimal text spells, exponent included.
stod(str) ==
    (IF str.neg THEN -1 ELSE 1)
      * (IF str.exp >= 0 THEN MulDiv(str.digits * 10^str.exp, PS, str.scale)
         ELSE MulDiv(str.digits, PS, str.scale * 10^(-str.exp)))

\* A frame: the keys it carries (has) and the text after each key.
Frame(has, b, a, s, B, A) ==
    [has |-> has, b |-> b, a |-> a, s |-> s, B |-> B, A |-> A]

\* FastJSONParser::parse_bookticker_fast(json)
parse_bookticker_fast(json) ==
    IF ~({"b", "a"} \subseteq json.has)
    THEN [bid |-> 0, ask |-> 0, valid |-> FALSE]
    ELSE LET bid == fast_atof(json.b)
             ask == fast_atof(json.a)
         IN  [bid |-> bid, ask |-> ask,
              valid |-> bid > 0 /\ ask > 0 /\ ask > bid]

\* FastJSONParser::validate_parsing(json, fast_result): the tolerance 1e-10
\* is below the grid, so the two parses must agree on it.
validate_parsing(json, fast_result) ==
    IF ~({"b", "a"} \subseteq json.has) THEN FALSE
    ELSE /\ fast_result.bid = stod(json.b)
         /\ fast_result.ask = stod(json.a)

\* ------------------------------------------------------------------------
\* TradingData and the database writers of the engine
\* ------------------------------------------------------------------------

DB_BATCH_SIZE == 50

\* TradingData as main() constructs it.  bid, ask, bid_qty and ask_qty have no
\* initializer, nor have the estimator's ewma_variance_ and last_price_: they
\* start with the values given here.  The latency statistics, which nothing
\* reads but the reports, are left out.
TradingData(bid, ask, bid_qty, ask_qty, variance_garbage, price_garbage) ==
    [symbol |-> "BTCUSDT",
     bid |-> bid, ask |-> ask, bid_qty |-> bid_qty, ask_qty |-> ask_qty,
     count |-> 0,
     should_stop |-> FALSE,
     engine |-> AvellanedaStoikov,
     quote_count |-> 0,
     fill_count |-> 0,
     volatility_estimator |-> EWMACalculator(variance_garbage, price_garbage),
     max_inventory |-> Dec(0, 1000),
     pnl_kill_switch |-> -Dec(10, 0),
     max_spread_multiplier |-> Dec(3, 0),
     pending_db_writes |-> <<>>,
     db_batch_count |-> 0,
     use_fast_json_parser |-> FALSE,
     fast_json_validation_count |-> 0,
     fast_json_validation_passed |-> 0]

\* The external store before the engine has written to it: the INSERT and
\* UPDATE commands issued per table, in order.  market_ticks holds one entry
\* per batch, session_updates the status of each UPDATE of the session row.
EmptyDatabase ==
    [market_ticks |-> <<>>, as_quotes |-> <<>>, trading_stats |-> <<>>,
     simulation_sessions |-> <<>>, session_updates |-> <<>>]

\* flushDatabaseBatch(data): <<data, database>> after the call.  The result
\* of the command is not looked at.
flushDatabaseBatch(td, db) ==
    IF td.pending_db_writes = <<>> THEN <<td, db>>
    ELSE <<[td EXCEPT !.pending_db_writes = <<>>, !.db_batch_count = 0],
           [db EXCEPT !.market_ticks = Append(@, td.pending_db_writes)]>>

\* writeMarketTickToDatabase(data): <<data, database>> after the call
writeMarketTickToDatabase(td, db) ==
    LET row == [symbol |-> td.symbol, bid |-> td.bid, bid_size |-> td.bid_qty,
                ask |-> td.ask, ask_size |-> td.ask_qty,
                spread |-> td.ask - td.bid,
                mid_price |-> Half(td.bid + td.ask)]
        td1 == [td EXCEPT !.pending_db_writes = Append(@, row),
                          !.db_batch_count = @ + 1]
    IN  IF td1.db_batch_count >= DB_BATCH_SIZE
        THEN flushDatabaseBatch(td1, db)
        ELSE <<td1, db>>

\* writeQuoteToDatabase that writes nothing.
writeQuoteToDatabase_Dropped(td, tr, db, quote) == db

\* writeQuoteToDatabase(data, quote): the database after the call
writeQuoteToDatabase(td, tr, db, quote) ==
    LET position  == get_position(tr, td.symbol)
        avg_entry == IF position.quantity # 0 THEN position.average_price ELSE 0
    IN  [db EXCEPT !.as_quotes =
            Append(@, [symbol |-> td.symbol,
                       our_bid |-> quote.bid_price, our_ask |-> quote.ask_price,
                       our_spread |-> spread(quote),
                       market_mid |-> Half(td.bid + td.ask),
                       position |-> position.quantity,
                       avg_entry_price |-> avg_entry,
                       volatility |-> get_volatility(td.engine)])]

\* writeTradingStatsToDatabase(data): the database after the call
writeTradingStatsToDatabase(td, tr, db) ==
    LET position  == get_position(tr, td.symbol)
        avg_entry == IF position.quantity # 0 THEN position.average_price ELSE 0
    IN  [db EXCEPT !.trading_stats =
            Append(@, [symbol |-> td.symbol,
                       position |-> position.quantity,
                       avg_entry_price |-> avg_entry,
                       realized_pnl |-> tr.realized_pnl_,
                       unrealized_pnl |-> tr.unrealized_pnl_,
                       total_pnl |-> get_total_pnl(tr),
                       fill_count |-> td.fill_count,
                       quote_count |-> td.quote_count])]

\* createSimulationSession(data, duration_seconds): the database after the call
createSimulationSession(td, db) ==
    [db EXCEPT !.simulation_sessions =
        Append(@, [symbol |-> td.symbol, status |-> "running"])]

\* updateSimulationSession(data, status): the database after the call
updateSimulationSession(td, tr, db, status) ==
    [db EXCEPT !.session_updates =
        Append(@, [status |-> status,
                   total_pnl |-> get_total_pnl(tr),
                   fill_count |-> td.fill_count,
                   quote_count |-> td.quote_count,
                   final_position |-> get_position(tr, td.symbol).quantity])]

\* ------------------------------------------------------------------------
\* LatencyStats and LatencyBenchmark
\* ------------------------------------------------------------------------

\* LLONG_MAX of <climits>, here the largest integer of the model.
LLONG_MAX == IntMax

\* The samples a LatencyStats keeps.
KEPT_SAMPLES == 1000

\* LatencyStats(name): the statistics of an operation, nothing measured yet
LatencyStats(name) ==
    [operation_name |-> name,
     count |-> 0,
     total_ns |-> 0,
     min_ns |-> LLONG_MAX,
     max_ns |-> 0,
     samples |-> <<>>]

\* add_sample that keeps every sample.
add_sample_KeepAll(stats, latency_ns) ==
    [stats EXCEPT !.count = @ + 1,
                  !.total_ns = @ + latency_ns,
                  !.min_ns = IF latency_ns < @ THEN latency_ns ELSE @,
                  !.max_ns = IF latency_ns > @ THEN latency_ns ELSE @,
                  !.samples = Append(@, latency_ns)]

\* LatencyStats::add_sample(latency_ns): the statistics after the call
add_sample(stats, latency_ns) ==
    LET pushed == Append(stats.samples, latency_ns)
    IN  [stats EXCEPT !.count = @ + 1,
                      !.total_ns = @ + latency_ns,
                      !.min_ns = IF latency_ns < @ THEN latency_ns ELSE @,
                      !.max_ns = IF latency_ns > @ THEN latency_ns ELSE @,
                      !.samples = IF Len(pushed) > KEPT_SAMPLES
                                  THEN Tail(pushed) ELSE pushed]

\* LatencyStats::avg_ns(), in units of 1/PS ns
avg_ns(stats) ==
    IF stats.count > 0 THEN (stats.total_ns * PS) \div stats.count ELSE 0

\* The LatencyBenchmark as constructed: no statistics, enabled.  stats_ is
\* the std::map, a function on the operations that have an entry.
LatencyBenchmark ==
    [stats_ |-> [name \in {} |-> LatencyStats(name)], enabled_ |-> TRUE]

\* LatencyBenchmark::record(operation, latency_ns): the benchmark after it
record(bm, operation, latency_ns) ==
    IF ~bm.enabled_ THEN bm
    ELSE LET created ==
                 IF operation \notin DOMAIN bm.stats_
                 THEN [name \in DOMAIN bm.stats_ \cup {operation} |->
                          IF name = operation THEN LatencyStats(operation)
                          ELSE bm.stats_[name]]
                 ELSE bm.stats_
         IN  [bm EXCEPT !.stats_ =
                 [created EXCEPT ![operation] = add_sample(@, latency_ns)]]

\* LatencyBenchmark::reset(): the benchmark after it
reset(bm) == [bm EXCEPT !.stats_ = [name \in {} |-> LatencyStats(name)]]

\* ------------------------------------------------------------------------
\* BinanceWebSocket: the socket, the receive thread and its tick queue
\* ------------------------------------------------------------------------

\* The most ticks the queue holds once a tick has been added.
QUEUE_LIMIT == 1000

\* socket_ while no socket is open.
NO_SOCKET == -1

\* The descriptor socket() gives.
SOCKET_FD == 3

\* to_lowercase(str), for the symbols of the model.
to_lowercase(str) ==
    CASE str = "BTCUSDT" -> "btcusdt"
      [] str = "ETHUSDT" -> "ethusdt"
      [] OTHER -> str

\* BinanceWebSocket(symbol): the object as constructed.  receive_thread_ is
\* "none" (no thread), "loop" (the thread is at the test of its while loop),
\* "recv" (it is inside receive_frame), "finished" (receive_loop has
\* returned, the thread not joined) or "joined".
BinanceWebSocket(symbol) ==
    [symbol_ |-> to_lowercase(symbol),
     connected_ |-> FALSE,
     should_stop_ |-> FALSE,
     socket_ |-> NO_SOCKET,
     tick_queue_ |-> <<>>,
     receive_thread_ |-> "none"]

\* std::thread::joinable() of receive_thread_
joinable(ws) == ws.receive_thread_ \in {"loop", "recv", "finished"}

\* connect(), given how far it gets: "socket" (socket() fails), "resolve",
\* "connect", "handshake" (that step fails, the socket left open) or "ok".
\* <<the object after it, the value returned>>
connect(ws, outcome) ==
    IF ws.connected_ THEN <<ws, TRUE>>
    ELSE IF outcome = "socket" THEN <<[ws EXCEPT !.socket_ = NO_SOCKET], FALSE>>
    ELSE IF outcome # "ok" THEN <<[ws EXCEPT !.socket_ = SOCKET_FD], FALSE>>
    ELSE <<[ws EXCEPT !.socket_ = SOCKET_FD,
                      !.connected_ = TRUE,
                      !.should_stop_ = FALSE,
                      !.receive_thread_ = "loop"], TRUE>>

\* disconnect() up to its join: the flags set.
disconnect_flags(ws) == [ws EXCEPT !.should_stop_ = TRUE, !.connected_ = FALSE]

\* disconnect() from its join on, the receive thread having finished if
\* there was one to join: the thread joined, the socket closed.
disconnect_join(ws) ==
    [ws EXCEPT !.receive_thread_ = IF joinable(ws) THEN "joined" ELSE @,
               !.socket_ = NO_SOCKET]

\* parse_book_ticker(data): the tick of a bookTicker message; the dummy tick
\* when a key is missing (the exception caught).
parse_book_ticker(ws, data) ==
    IF {"s", "b", "a", "B", "A"} \subseteq data.has
    THEN MarketTick(data.s, stod(data.b), stod(data.a),
                    Half(stod(data.B) + stod(data.A)), 0)
    ELSE MarketTick(ws.symbol_, 0, 0, 0, 0)

\* The frame receive_frame gives when recv fails or the frame is short or
\* incomplete, and a payload that is no JSON.
EmptyFrame == [payload |-> ""]

NotJSON == [payload |-> "not json"]

\* receive_loop from the return of receive_frame to the next test of the
\* loop, with a queue that is never cut back.
receive_loop_Unbounded(ws, frame_data) ==
    IF frame_data = EmptyFrame
    THEN [ws EXCEPT !.connected_ = FALSE, !.receive_thread_ = "finished"]
    ELSE IF frame_data = NotJSON
    THEN [ws EXCEPT !.receive_thread_ = "loop"]
    ELSE [ws EXCEPT !.tick_queue_ = Append(@, parse_book_ticker(ws, frame_data)),
                    !.receive_thread_ = "loop"]

\* receive_loop from the return of receive_frame to the next test of the
\* loop: an empty frame ends the thread, connected_ cleared; a payload that
\* is no JSON is logged; a tick is pushed and, the queue then holding more
\* than 1000, the oldest popped, both under queue_mutex_.
receive_loop(ws, frame_data) ==
    IF frame_data = EmptyFrame
    THEN [ws EXCEPT !.connected_ = FALSE, !.receive_thread_ = "finished"]
    ELSE IF frame_data = NotJSON
    THEN [ws EXCEPT !.receive_thread_ = "loop"]
    ELSE LET pushed == Append(ws.tick_queue_, parse_book_ticker(ws, frame_data))
         IN  [ws EXCEPT !.tick_queue_ = IF Len(pushed) > QUEUE_LIMIT
                                        THEN Tail(pushed) ELSE pushed,
                        !.receive_thread_ = "loop"]

\* receive_tick(), once it has the mutex with a tick queued or the object
\* disconnected: <<the object after it, the tick returned>>.  (With the queue
\* empty and the object connected it sleeps and looks again.)
receive_tick(ws) ==
    IF ws.tick_queue_ # <<>>
    THEN <<[ws EXCEPT !.tick_queue_ = Tail(@)], Head(ws.tick_queue_)>>
    ELSE <<ws, MarketTick(ws.symbol_, 0, 0, 0, 0)>>

\* try_receive_tick(tick): <<the object after it, the tick given, the value
\* returned>>; the caller's tick is left as it was when nothing is queued.
try_receive_tick(ws, tick) ==
    IF ws.tick_queue_ # <<>>
    THEN <<[ws EXCEPT !.tick_queue_ = Tail(@)], Head(ws.tick_queue_), TRUE>>
    ELSE <<ws, tick, FALSE>>

\* ------------------------------------------------------------------------
\* State
\* ------------------------------------------------------------------------

VARIABLES
    pnl_tracker,      \* the PnLTracker (TradingData::pnl_tracker, or the tests')
    old_quantity,     \* update_position's local: the quantity before the last fill
    old_avg_price,    \* update_position's local: the average price before it
    fill,             \* the Fill last passed to update_fill
    mark,             \* <<symbol, price>> last passed to update_market_price
    call,             \* which tracker method the test driver called last
    calls,            \* number of tracker calls the test driver has made
    trading_data,     \* the TradingData of main(), all but its pnl_tracker
    database,         \* the tables of the external store, as the writers fill them
    kill_switch_activated,  \* "KILL SWITCH ACTIVATED" lines printed so far
    pc,               \* where main() is: "test", "service" (in lws_service), "done"
    conn,             \* the client connection: "connecting", "established", "closed"
    moves,            \* times the feed's top of book has changed
    crossed_at,       \* count when total P&L first came to the kill threshold, or 0
    algo,             \* the AvellanedaStoikov object of the component tests
    estimator,        \* the EWMACalculator driven on its own
    arg,              \* the arguments of the latest call of a component
    ret,              \* what that call returned
    benchmark,        \* LatencyBenchmark::instance(), followed when it is
                      \* driven on its own
    websocket         \* a BinanceWebSocket, followed when it is driven on its own

tracker_vars == <<pnl_tracker, old_quantity, old_avg_price, fill, mark>>

driver_vars == <<call, calls>>

engine_vars == <<trading_data, database, kill_switch_activated, pc, conn, moves,
                 crossed_at>>

unit_vars == <<algo, estimator, arg, ret, benchmark, websocket>>

vars == <<tracker_vars, driver_vars, engine_vars, unit_vars>>

NoFill == Fill("", FALSE, 0, 0, 0, 0)

\* The component objects while no test of them runs: as constructed, nothing
\* called.
UnitInit ==
    /\ algo = AvellanedaStoikov
    /\ estimator = EWMACalculator(0, 0)
    /\ arg = <<>>
    /\ ret = <<>>
    /\ benchmark = LatencyBenchmark
    /\ websocket = BinanceWebSocket("BTCUSDT")

\* The tracker and the record of its latest calls, as constructed.
TrackerInit ==
    /\ pnl_tracker = PnLTracker
    /\ old_quantity = 0
    /\ old_avg_price = 0
    /\ fill = NoFill
    /\ mark = <<"", 0>>

\* The locals old_quantity and old_avg_price of the update_position call that
\* update_fill(f) makes on tracker tr (left alone for an unknown symbol).
UpdatePositionLocals(tr, f) ==
    IF string_to_symbol(f.symbol) = UNKNOWN
    THEN UNCHANGED <<old_quantity, old_avg_price>>
    ELSE /\ old_quantity' = get_position(tr, f.symbol).quantity
         /\ old_avg_price' = get_position(tr, f.symbol).average_price

\* ------------------------------------------------------------------------
\* The tracker driven call by call, as the unit tests drive it
\* ------------------------------------------------------------------------

\* Most tracker calls in one run of the driver.
MaxCalls == 3

TestSymbols == {"BTCUSDT", "ETHUSDT", "XRPUSDT"}

TestPrices == {Dec(100, 0), Dec(98, 5000)}

TestSizes == {Dec(0, 5000), Dec(1, 0)}

\* The maker rebate the engine attaches to a fill, as a fee:
\* -(price * size * 0.0001).
RebateFee(price, size) == -FMul(FMul(price, size), Dec(0, 1))

\* The tests construct a tracker and no engine: main() of the engine is not
\* running (pc = "test") and its data never change.
DriverInit ==
    /\ TrackerInit
    /\ call = "none"
    /\ calls = 0
    /\ trading_data = TradingData(0, 0, 0, 0, 0, 0)
    /\ database = EmptyDatabase
    /\ kill_switch_activated = 0
    /\ pc = "test"
    /\ conn = "closed"
    /\ moves = 0
    /\ crossed_at = 0
    /\ UnitInit

CallUpdateFill ==
    /\ calls < MaxCalls
    /\ \E sym \in TestSymbols, buy \in BOOLEAN, price \in TestPrices, size \in TestSizes :
          LET f == Fill(sym, buy, price, size, 0, RebateFee(price, size))
          IN  /\ pnl_tracker' = update_fill(pnl_tracker, f)
              /\ UpdatePositionLocals(pnl_tracker, f)
              /\ fill' = f
    /\ call' = "update_fill"
    /\ calls' = calls + 1
    /\ UNCHANGED <<mark, engine_vars, unit_vars>>

CallUpdateMarketPrice ==
    /\ calls < MaxCalls
    /\ \E sym \in TestSymbols, price \in TestPrices :
          /\ pnl_tracker' = update_market_price(pnl_tracker, sym, price)
          /\ mark' = <<sym, price>>
    /\ call' = "update_market_price"
    /\ calls' = calls + 1
    /\ UNCHANGED <<fill, old_quantity, old_avg_price, engine_vars, unit_vars>>

TrackerNext == CallUpdateFill \/ CallUpdateMarketPrice

SpecTracker == DriverInit /\ [][TrackerNext]_vars

\* ------------------------------------------------------------------------
\* The quote generator called on its own, as the algorithm tests call it
\* ------------------------------------------------------------------------

\* The ticks of the tests: BTC 45000 / 45010, volume 1000, with volatility
\* 0.025, 0.05 or none (0).
TestTicks ==
    {MarketTick("BTC", Dec(45000, 0), Dec(45010, 0), Dec(1000, 0), v) :
       v \in {Dec(0, 250), Dec(0, 500), 0}}

\* The inventories of the tests: neutral, long 2 and short 2.
TestInventories == {0, Dec(2, 0), -Dec(2, 0)}

\* The ticks and inventories the vectors of a batch are made of: the ticks
\* with volatility 0.025 and 0, long 2 and short 2.
BatchTicks == {tick \in TestTicks : tick.volatility # Dec(0, 500)}

BatchInventories == TestInventories \ {0}

\* Longest vector given to calculate_quotes_batch.
MaxBatch == 2

\* Most calls made on one quote generator.
MaxAlgoCalls == 2

\* The sequences over S of length at most n.
RECURSIVE SeqsUpTo(_, _)
SeqsUpTo(S, n) ==
    IF n = 0 THEN {<<>>}
    ELSE SeqsUpTo(S, n - 1)
           \cup {Append(q, x) : q \in {r \in SeqsUpTo(S, n - 1) : Len(r) = n - 1},
                                x \in S}

CallCalculateQuotes ==
    /\ calls < MaxAlgoCalls
    /\ \E tick \in TestTicks, inventory \in TestInventories :
          /\ arg' = [tick |-> tick, inventory |-> inventory]
          /\ ret' = calculate_quotes(algo, tick, inventory)
    /\ call' = "calculate_quotes"
    /\ calls' = calls + 1
    /\ UNCHANGED <<tracker_vars, engine_vars, algo, estimator, benchmark, websocket>>

CallCalculateQuotesBatch ==
    /\ calls < MaxAlgoCalls
    /\ \E ticks \in SeqsUpTo(BatchTicks, MaxBatch),
          inventories \in SeqsUpTo(BatchInventories, MaxBatch) :
          /\ arg' = [ticks |-> ticks, inventories |-> inventories]
          /\ ret' = calculate_quotes_batch(algo, ticks, inventories)
    /\ call' = "calculate_quotes_batch"
    /\ calls' = calls + 1
    /\ UNCHANGED <<tracker_vars, engine_vars, algo, estimator, benchmark, websocket>>

AlgoNext == CallCalculateQuotes \/ CallCalculateQuotesBatch

SpecAlgo == DriverInit /\ [][AlgoNext]_vars

\* ------------------------------------------------------------------------
\* The volatility update of the handler on its own: the estimator and the
\* engine it feeds, given one mid price after the other
\* ------------------------------------------------------------------------

MaxUpdates == 4

\* The values ewma_variance_, which the constructor leaves unset, may start
\* with: 0, 0.0002 and -0.0002.
VarianceGarbage == {0, 2 * (VS \div PS), -2 * (VS \div PS)}

\* The mid prices handed to update: two prices of the feed, 0 (a book whose
\* prices are 0) and a negative number.
MidPrices == {Dec(40000, 5000), Dec(38900, 5000), 0, -Dec(40000, 5000)}

\* TradingData's estimator and engine as constructed.
EstimatorInit ==
    /\ TrackerInit
    /\ call = "none"
    /\ calls = 0
    /\ trading_data = TradingData(0, 0, 0, 0, 0, 0)
    /\ database = EmptyDatabase
    /\ kill_switch_activated = 0
    /\ pc = "test"
    /\ conn = "closed"
    /\ moves = 0
    /\ crossed_at = 0
    /\ algo = AvellanedaStoikov
    /\ \E variance_garbage \in VarianceGarbage :
          estimator = EWMACalculator(variance_garbage, 0)
    /\ arg = <<>>
    /\ ret = <<>>
    /\ benchmark = LatencyBenchmark
    /\ websocket = BinanceWebSocket("BTCUSDT")

\* "Update EWMA volatility estimator with every tick" and "Update engine
\* volatility with live estimate": update(mid_price), then set_volatility of
\* what get_volatility() reports, kept in ret; price is the mid price.
CallUpdate ==
    /\ calls < MaxUpdates
    /\ \E price \in MidPrices :
          \E est \in {update(estimator, price)} :
             /\ estimator' = est
             /\ algo' = set_volatility(algo, est.current_vol_)
             /\ arg' = price
             /\ ret' = est.current_vol_
    /\ call' = "update"
    /\ calls' = calls + 1
    /\ UNCHANGED <<tracker_vars, engine_vars, benchmark, websocket>>

EstimatorNext == CallUpdate

SpecEstimator == EstimatorInit /\ [][EstimatorNext]_vars

\* ------------------------------------------------------------------------
\* callback_websocket, LWS_CALLBACK_CLIENT_RECEIVE, step by step
\* ------------------------------------------------------------------------

\* CountAndValidate that switches at frame 1000 if any validation passed.
CountAndValidate_AnyPassed(td, json) ==
    LET count       == td.count + 1
        validating  == count % 100 = 0 /\ count <= 1000
        fast_result == parse_bookticker_fast(json)
        validation_passed == validate_parsing(json, fast_result)
        validation_count  == td.fast_json_validation_count
                               + (IF validating THEN 1 ELSE 0)
        passed_count      == td.fast_json_validation_passed
                               + (IF validating /\ validation_passed THEN 1 ELSE 0)
    IN  [td EXCEPT
            !.count = count,
            !.fast_json_validation_count = validation_count,
            !.fast_json_validation_passed = passed_count,
            !.use_fast_json_parser =
                IF validating /\ count = 1000 /\ passed_count > 0
                THEN TRUE ELSE @]

\* CountAndValidate that validates every frame up to the 1000th.
CountAndValidate_EveryFrame(td, json) ==
    LET count       == td.count + 1
        validating  == count <= 1000
        fast_result == parse_bookticker_fast(json)
        validation_passed == validate_parsing(json, fast_result)
        validation_count  == td.fast_json_validation_count
                               + (IF validating THEN 1 ELSE 0)
        passed_count      == td.fast_json_validation_passed
                               + (IF validating /\ validation_passed THEN 1 ELSE 0)
    IN  [td EXCEPT
            !.count = count,
            !.fast_json_validation_count = validation_count,
            !.fast_json_validation_passed = passed_count,
            !.use_fast_json_parser =
                IF validating /\ count = 1000 /\ passed_count = validation_count
                THEN TRUE ELSE @]

\* data->count++ and the fast-parser validation of every 100th frame up to
\* the 1000th, where the parser is switched if every validation passed.
CountAndValidate(td, json) ==
    LET count       == td.count + 1
        validating  == count % 100 = 0 /\ count <= 1000
        fast_result == parse_bookticker_fast(json)
        validation_passed == validate_parsing(json, fast_result)
        validation_count  == td.fast_json_validation_count
                               + (IF validating THEN 1 ELSE 0)
        passed_count      == td.fast_json_validation_passed
                               + (IF validating /\ validation_passed THEN 1 ELSE 0)
    IN  [td EXCEPT
            !.count = count,
            !.fast_json_validation_count = validation_count,
            !.fast_json_validation_passed = passed_count,
            !.use_fast_json_parser =
                IF validating /\ count = 1000 /\ passed_count = validation_count
                THEN TRUE ELSE @]

\* "Parse JSON": bid and ask by the fast parser when it is switched on and
\* its result is valid, by the standard parsing otherwise; then symbol and
\* sizes.  A key the frame does not carry leaves its field as it was.
ParseFrame(td, json) ==
    LET fast_result == parse_bookticker_fast(json)
        use_fast    == td.use_fast_json_parser /\ fast_result.valid
    IN  [td EXCEPT
            !.bid     = IF use_fast THEN fast_result.bid
                        ELSE IF "b" \in json.has THEN stod(json.b) ELSE @,
            !.ask     = IF use_fast THEN fast_result.ask
                        ELSE IF "a" \in json.has THEN stod(json.a) ELSE @,
            !.symbol  = IF "s" \in json.has THEN json.s ELSE @,
            !.bid_qty = IF "B" \in json.has THEN stod(json.B) ELSE @,
            !.ask_qty = IF "A" \in json.has THEN stod(json.A) ELSE @]

\* KillSwitchTripped with the sign of the threshold lost: trips on a gain.
KillSwitchTripped_Sign(current_pnl, pnl_kill_switch) ==
    current_pnl >= -pnl_kill_switch

\* KillSwitchTripped with the threshold taken twice as far away.
KillSwitchTripped_Doubled(current_pnl, pnl_kill_switch) ==
    current_pnl <= 2 * pnl_kill_switch

\* "RISK CONTROL: Check kill switch"
KillSwitchTripped(current_pnl, pnl_kill_switch) ==
    current_pnl <= pnl_kill_switch

\* WidenSpread that moves each side by the whole difference of the spreads,
\* not by half of it.
WidenSpread_Unhalved(td, quote, position) ==
    LET inventory_ratio == FDiv(Abs(position.quantity), td.max_inventory)
        spread_multiplier ==
            Dec(1, 0) + FMul(inventory_ratio - Dec(0, 5000), td.max_spread_multiplier)
        current_spread    == spread(quote)
        new_spread        == FMul(current_spread, spread_multiplier)
    IN  IF inventory_ratio <= Dec(0, 5000) THEN quote
        ELSE IF ~IsFinite(quote.bid_price) \/ ~IsFinite(quote.ask_price)
        THEN [quote EXCEPT !.bid_price = NaN, !.ask_price = NaN]
        ELSE [quote EXCEPT !.bid_price = @ - (new_spread - current_spread),
                           !.ask_price = @ + (new_spread - current_spread)]

\* "RISK CONTROL: Apply inventory-based spread widening".  Of a quote with a
\* price that is no number the spread is no number, or an infinity whose
\* adjustment is none: both prices come out NaN.
WidenSpread(td, quote, position) ==
    LET inventory_ratio == FDiv(Abs(position.quantity), td.max_inventory)
        spread_multiplier ==
            Dec(1, 0) + FMul(inventory_ratio - Dec(0, 5000), td.max_spread_multiplier)
        current_spread    == spread(quote)
        new_spread        == FMul(current_spread, spread_multiplier)
        spread_adjustment == Half(new_spread - current_spread)
    IN  IF inventory_ratio <= Dec(0, 5000) THEN quote
        ELSE IF ~IsFinite(quote.bid_price) \/ ~IsFinite(quote.ask_price)
        THEN [quote EXCEPT !.bid_price = NaN, !.ask_price = NaN]
        ELSE [quote EXCEPT !.bid_price = @ - spread_adjustment,
                           !.ask_price = @ + spread_adjustment]

\* Competitive that takes a distance of exactly 0.1% for competitive too.
Competitive_Inclusive(price, public) ==
    /\ IsFinite(price)
    /\ public # 0
    /\ FDiv(Abs(price - public), public) <= Dec(0, 10)

\* "Check if our quotes are competitive (within 0.1% of best bid/ask)"
Competitive(price, public) ==
    /\ IsFinite(price)
    /\ public # 0
    /\ FDiv(Abs(price - public), public) < Dec(0, 10)

\* The draw that fills the bid: random_val < 0.05.
BidFillDrawn(random_val) == random_val < Dec(0, 500)

\* AskFillDrawn with the comparison the wrong way round: random_val < 0.95.
AskFillDrawn_Below(random_val) == random_val < Dec(0, 9500)

\* The draw that fills the ask: random_val > 0.95.
AskFillDrawn(random_val) == random_val > Dec(0, 9500)

\* QuotingStep whose kill switch sets the stop flag and does not leave the
\* handler: the quote, the fills and the mark follow as on any 10th frame.
QuotingStep_NoBreak(td, tr, mid, random_val) ==
    LET tick        == MarketTick(td.symbol, td.bid, td.ask, 0,
                                  get_volatility(td.engine))
        position    == get_position(tr, td.symbol)
        killed      == KillSwitchTripped(get_total_pnl(tr), td.pnl_kill_switch)
        quote       == WidenSpread(td,
                                   calculate_quotes(td.engine, tick, position.quantity),
                                   position)
        fill_quantity == Dec(0, 100)
        bid_filled  == Competitive(quote.bid_price, td.bid) /\ BidFillDrawn(random_val)
        bid_fill    == Fill(td.symbol, TRUE, quote.bid_price, fill_quantity,
                            quote.order_id, RebateFee(quote.bid_price, fill_quantity))
        tr1         == IF bid_filled THEN update_fill(tr, bid_fill) ELSE tr
        ask_filled  == Competitive(quote.ask_price, td.ask) /\ AskFillDrawn(random_val)
        ask_fill    == Fill(td.symbol, FALSE, quote.ask_price, fill_quantity,
                            quote.order_id, RebateFee(quote.ask_price, fill_quantity))
        tr2         == IF ask_filled THEN update_fill(tr1, ask_fill) ELSE tr1
        stopped     == [td EXCEPT !.should_stop = @ \/ killed]
        nothing     == [killed |-> killed, valid |-> FALSE, quote |-> quote,
                        bid_filled |-> FALSE, ask_filled |-> FALSE,
                        bid_fill |-> bid_fill, ask_fill |-> ask_fill,
                        tr1 |-> tr, td |-> stopped, tr |-> tr]
    IN  IF ~is_valid(quote) THEN nothing
        ELSE [nothing EXCEPT
                !.valid = TRUE,
                !.bid_filled = bid_filled,
                !.ask_filled = ask_filled,
                !.tr1 = tr1,
                !.td = [stopped EXCEPT
                          !.quote_count = @ + 1,
                          !.fill_count = @ + (IF bid_filled THEN 1 ELSE 0)
                                           + (IF ask_filled THEN 1 ELSE 0)],
                !.tr = update_market_price(tr2, td.symbol, mid)]

\* The quoting step of every 10th frame: kill switch, quote, spread widening
\* and, for a valid quote, the fill simulation with the draw random_val and
\* the mark at mid_price.  The result names what happened (killed, valid,
\* bid_filled, ask_filled), the fills made, the tracker between the fills
\* (tr1) and data and tracker after the step.
QuotingStep(td, tr, mid, random_val) ==
    LET tick        == MarketTick(td.symbol, td.bid, td.ask, 0,
                                  get_volatility(td.engine))
        position    == get_position(tr, td.symbol)
        current_pnl == get_total_pnl(tr)
        quote       == WidenSpread(td,
                                   calculate_quotes(td.engine, tick, position.quantity),
                                   position)
        bid_competitive == Competitive(quote.bid_price, td.bid)
        ask_competitive == Competitive(quote.ask_price, td.ask)
        fill_quantity == Dec(0, 100)
        bid_filled  == bid_competitive /\ BidFillDrawn(random_val)
        bid_fill    == Fill(td.symbol, TRUE, quote.bid_price, fill_quantity,
                            quote.order_id, RebateFee(quote.bid_price, fill_quantity))
        tr1         == IF bid_filled THEN update_fill(tr, bid_fill) ELSE tr
        ask_filled  == ask_competitive /\ AskFillDrawn(random_val)
        ask_fill    == Fill(td.symbol, FALSE, quote.ask_price, fill_quantity,
                            quote.order_id, RebateFee(quote.ask_price, fill_quantity))
        tr2         == IF ask_filled THEN update_fill(tr1, ask_fill) ELSE tr1
        nothing     == [killed |-> FALSE, valid |-> FALSE, quote |-> quote,
                        bid_filled |-> FALSE, ask_filled |-> FALSE,
                        bid_fill |-> bid_fill, ask_fill |-> ask_fill,
                        tr1 |-> tr, td |-> td, tr |-> tr]
    IN  IF KillSwitchTripped(current_pnl, td.pnl_kill_switch)
        THEN [nothing EXCEPT !.killed = TRUE,
                             !.td = [td EXCEPT !.should_stop = TRUE]]
        ELSE IF ~is_valid(quote) THEN nothing
        ELSE [nothing EXCEPT
                !.valid = TRUE,
                !.bid_filled = bid_filled,
                !.ask_filled = ask_filled,
                !.tr1 = tr1,
                !.td = [td EXCEPT
                          !.quote_count = @ + 1,
                          !.fill_count = @ + (IF bid_filled THEN 1 ELSE 0)
                                           + (IF ask_filled THEN 1 ELSE 0)],
                !.tr = update_market_price(tr2, td.symbol, mid)]

\* "Write to database every 10 ticks": the tick row into the batch and, once
\* a quote has been counted, a quote row (quoted afresh, without widening)
\* and a stats row.  <<data, database>> after it.
DatabaseStep(td, tr, db) ==
    LET w     == writeMarketTickToDatabase(td, db)
        tick  == MarketTick(td.symbol, td.bid, td.ask, 0, get_volatility(td.engine))
        quote == calculate_quotes(td.engine, tick,
                                  get_position(tr, td.symbol).quantity)
    IN  IF td.quote_count > 0
        THEN <<w[1], writeTradingStatsToDatabase(
                        w[1], tr, writeQuoteToDatabase(w[1], tr, w[2], quote))>>
        ELSE w

\* ------------------------------------------------------------------------
\* The engine: main() and the callbacks lws_service runs
\* ------------------------------------------------------------------------

\* Most frames the feed delivers in one run.
MaxTicks == 30

\* Most changes of the top of book in one run.
MaxMoves == 1

\* The tops of book <<bid, ask>> the feed shows: 40000.00 / 40001.00 and
\* 38900.00 / 38901.00.
FeedBooks ==
    {<<Decimal(FALSE, 4000000, 100), Decimal(FALSE, 4000100, 100)>>,
     <<Decimal(FALSE, 3890000, 100), Decimal(FALSE, 3890100, 100)>>}

\* The bookTicker frames of the btcusdt stream: every key present, sizes 1.50.
Frames ==
    {Frame({"b", "a", "s", "B", "A"}, book[1], book[2], "BTCUSDT",
           Decimal(FALSE, 150, 100), Decimal(FALSE, 150, 100)) : book \in FeedBooks}

\* The draws rand() / RAND_MAX the fill simulation sees: 0.01, 0.5 and 0.99.
RandomVals == {Dec(0, 100), Dec(0, 5000), Dec(0, 9900)}

\* What a double without initializer may hold.
Indeterminate == {0, Dec(1, 0)}

\* What the estimator's ewma_variance_, without initializer, may hold: 0 or
\* 0.0002, in units of 1/VS.
IndeterminateVariance == {0, 2 * (VS \div PS)}

\* main() up to its service loop: TradingData constructed, the connection
\* requested.
Init ==
    /\ TrackerInit
    /\ call = "none"
    /\ calls = 0
    /\ \E bid \in Indeterminate, ask \in Indeterminate,
          bid_qty \in Indeterminate, ask_qty \in Indeterminate,
          variance_garbage \in IndeterminateVariance, price_garbage \in Indeterminate :
          trading_data = TradingData(bid, ask, bid_qty, ask_qty,
                                     variance_garbage, price_garbage)
    /\ database = EmptyDatabase
    /\ kill_switch_activated = 0
    /\ pc = "service"
    /\ conn = "connecting"
    /\ moves = 0
    /\ crossed_at = 0
    /\ UnitInit

\* LWS_CALLBACK_CLIENT_ESTABLISHED
Established ==
    /\ pc = "service"
    /\ conn = "connecting"
    /\ conn' = "established"
    /\ database' = createSimulationSession(trading_data, database)
    /\ UNCHANGED <<tracker_vars, driver_vars, trading_data, kill_switch_activated,
                   pc, moves, crossed_at, unit_vars>>

\* RECEIVE up to the quoting step: the frame counted and parsed, the
\* estimator updated with the mid price and its volatility given to the engine.
TickStep(td, json) ==
    LET td1 == ParseFrame(CountAndValidate(td, json), json)
    IN  CHOOSE td2 \in
            {[td1 EXCEPT !.volatility_estimator = est,
                         !.engine = set_volatility(@, est.current_vol_)] :
               est \in {update(td1.volatility_estimator, Half(td1.bid + td1.ask))}} :
            TRUE

\* RECEIVE from the database writes on: q is the outcome of the quoting step
\* of data td2.  The kill switch has left the handler (break) before the
\* writes.
ReceiveWrites(td2, q, db) ==
    CHOOSE o \in
        {[td2 |-> td2, q |-> q, tr |-> q.tr, td |-> w[1], db |-> w[2]] :
           w \in {IF td2.count % 10 = 0 /\ ~q.killed
                  THEN DatabaseStep(q.td, q.tr, db)
                  ELSE <<q.td, db>>}} : TRUE

\* RECEIVE from the quoting step on, which only a 10th frame has.
ReceiveQuoting(td2, tr, db, random_val) ==
    CHOOSE o \in
        {ReceiveWrites(td2, q, db) :
           q \in {IF td2.count % 10 = 0
                  THEN QuotingStep(td2, tr, Half(td2.bid + td2.ask), random_val)
                  ELSE [killed |-> FALSE, valid |-> FALSE, bid_filled |-> FALSE,
                        ask_filled |-> FALSE, td |-> td2, tr |-> tr]}} : TRUE

\* LWS_CALLBACK_CLIENT_RECEIVE for one frame with the draw random_val, the
\* whole handler, as a function of data, tracker and database.  The result
\* holds td2, the data before the quoting step, q, the outcome of the quoting
\* step, and data, tracker and database after the handler.  (The sets bind
\* td2, q and the writes, so that each is computed once.)
ReceiveOutcome(td, tr, db, json, random_val) ==
    CHOOSE o \in
        {ReceiveQuoting(td2, tr, db, random_val) :
           td2 \in {TickStep(td, json)}} : TRUE

\* What RECEIVE does to the state, given its outcome o for one frame and
\* draw: all variables of the engine and of its tracker.
ReceiveApplied(o) ==
    LET td2   == o.td2
        q     == o.q
        moved == trading_data.count > 0
                   /\ <<td2.bid, td2.ask>> # <<trading_data.bid, trading_data.ask>>
    IN  /\ moves' = IF moved THEN moves + 1 ELSE moves
        /\ trading_data' = o.td
        /\ database' = o.db
        /\ pnl_tracker' = o.tr
        /\ kill_switch_activated' =
              kill_switch_activated + (IF q.killed THEN 1 ELSE 0)
        /\ IF q.ask_filled
           THEN /\ fill' = q.ask_fill
                /\ UpdatePositionLocals(q.tr1, q.ask_fill)
           ELSE IF q.bid_filled
           THEN /\ fill' = q.bid_fill
                /\ UpdatePositionLocals(pnl_tracker, q.bid_fill)
           ELSE UNCHANGED <<fill, old_quantity, old_avg_price>>
        /\ mark' = IF q.valid THEN <<td2.symbol, Half(td2.bid + td2.ask)>> ELSE mark
        /\ crossed_at' =
              IF crossed_at = 0 /\ get_total_pnl(o.tr) <= td2.pnl_kill_switch
              THEN td2.count ELSE crossed_at

\* RECEIVE for the frame json with the draw random_val, from the state the
\* engine is in.
ReceiveFrame(json, random_val) ==
    \E o \in {ReceiveOutcome(trading_data, pnl_tracker, database, json, random_val)} :
       ReceiveApplied(o)

\* LWS_CALLBACK_CLIENT_RECEIVE for one frame of the feed.
Receive ==
    /\ pc = "service"
    /\ conn = "established"
    /\ trading_data.count < MaxTicks
    /\ \E json \in Frames,
          random_val \in (IF (trading_data.count + 1) % 10 = 0
                          THEN RandomVals ELSE {0}) :
          /\ ReceiveFrame(json, random_val)
          /\ moves' <= MaxMoves
    /\ UNCHANGED <<driver_vars, pc, conn, unit_vars>>

\* LWS_CALLBACK_CLIENT_CONNECTION_ERROR: the connection could not be made.
ConnectionError ==
    /\ pc = "service"
    /\ conn = "connecting"
    /\ conn' = "closed"
    /\ trading_data' = [trading_data EXCEPT !.should_stop = TRUE]
    /\ UNCHANGED <<tracker_vars, driver_vars, database, kill_switch_activated, pc,
                   moves, crossed_at, unit_vars>>

\* LWS_CALLBACK_CLOSED: the established connection went away.
Closed ==
    /\ pc = "service"
    /\ conn = "established"
    /\ conn' = "closed"
    /\ trading_data' = [trading_data EXCEPT !.should_stop = TRUE]
    /\ UNCHANGED <<tracker_vars, driver_vars, database, kill_switch_activated, pc,
                   moves, crossed_at, unit_vars>>

\* The service loop without its duration check: the loop condition alone.
ServiceLoop_NoDurationCheck ==
    /\ pc = "service"
    /\ pc' = IF trading_data.should_stop THEN "done" ELSE "service"
    /\ UNCHANGED <<tracker_vars, driver_vars, trading_data, database,
                   kill_switch_activated, conn, moves, crossed_at, unit_vars>>

\* The service loop of main() from the return of lws_service to the next
\* call of it: the duration check (elapsed says whether the clock has passed
\* the duration), then the loop condition.
ServiceLoop ==
    /\ pc = "service"
    /\ \E elapsed \in BOOLEAN :
          LET f  == flushDatabaseBatch(trading_data, database)
              td == IF elapsed THEN [f[1] EXCEPT !.should_stop = TRUE]
                    ELSE trading_data
              db == IF elapsed
                    THEN updateSimulationSession(td, pnl_tracker, f[2], "completed")
                    ELSE database
          IN  /\ trading_data' = td
              /\ database' = db
              /\ pc' = IF td.should_stop THEN "done" ELSE "service"
    /\ UNCHANGED <<tracker_vars, driver_vars, kill_switch_activated, conn, moves,
                   crossed_at, unit_vars>>

Next == Established \/ Receive \/ ConnectionError \/ Closed \/ ServiceLoop

Spec == Init /\ [][Next]_vars

\* ------------------------------------------------------------------------
\* The engine late in a run: the 10th frame that follows a given run of frames
\* ------------------------------------------------------------------------

HighBook == <<Decimal(FALSE, 4000000, 100), Decimal(FALSE, 4000100, 100)>>

LowBook == <<Decimal(FALSE, 3890000, 100), Decimal(FALSE, 3890100, 100)>>

\* The bookTicker frame that shows a book.
FrameOf(book) ==
    Frame({"b", "a", "s", "B", "A"}, book[1], book[2], "BTCUSDT",
          Decimal(FALSE, 150, 100), Decimal(FALSE, 150, 100))

\* A run of len frames: the book is HighBook throughout, or LowBook up to
\* frame move_at - 1 and HighBook from frame move_at on; the draws of the
\* first `fills` quoting steps fill the bid (buy) or the ask, the later ones
\* fill nothing.
Run(fills, buy, move_at, len) ==
    [fills |-> fills, buy |-> buy, move_at |-> move_at, len |-> len]

RunBook(run, k) ==
    IF run.move_at > 0 /\ k < run.move_at THEN LowBook ELSE HighBook

RunDraw(run, k) ==
    IF k % 10 = 0 /\ k \div 10 <= run.fills
    THEN (IF run.buy THEN Dec(0, 100) ELSE Dec(0, 9900))
    ELSE Dec(0, 5000)

\* The runs replayed: no fill; five, six, ten and twelve bid fills; six and
\* eight ask fills; and runs whose book moved 32 frames before a quoting step.
Runs ==
    {Run(0, TRUE, 0, 9), Run(5, TRUE, 0, 59), Run(6, TRUE, 0, 69),
     Run(10, TRUE, 0, 109), Run(12, TRUE, 0, 129), Run(6, FALSE, 0, 69),
     Run(8, FALSE, 0, 89), Run(0, TRUE, 8, 39)}

\* The draws of the quoting step looked at: 0.01, 0.05, 0.5, 0.95 and 0.99.
QuotingDraws == {Dec(0, 100), Dec(0, 500), Dec(0, 5000), Dec(0, 9500), Dec(0, 9900)}

\* main() up to its service loop, about to receive the run arg.
LateInit ==
    /\ TrackerInit
    /\ call = "none"
    /\ calls = 0
    /\ trading_data = TradingData(0, 0, 0, 0, 0, 0)
    /\ database = EmptyDatabase
    /\ kill_switch_activated = 0
    /\ pc = "service"
    /\ conn = "connecting"
    /\ moves = 0
    /\ crossed_at = 0
    /\ algo = AvellanedaStoikov
    /\ estimator = EWMACalculator(0, 0)
    /\ arg \in Runs
    /\ ret = <<>>
    /\ benchmark = LatencyBenchmark
    /\ websocket = BinanceWebSocket("BTCUSDT")

\* RECEIVE for the frame json with the draw random_val; the draw and the
\* quote of its quoting step are kept in ret, which a frame without quoting
\* step leaves as it is.
KeepQuote(json, random_val) ==
    \E o \in {ReceiveOutcome(trading_data, pnl_tracker, database, json, random_val)} :
       /\ ReceiveApplied(o)
       /\ ret' = IF o.td2.count % 10 = 0
                 THEN [random_val |-> random_val, quote |-> o.q.quote]
                 ELSE ret

\* LWS_CALLBACK_CLIENT_RECEIVE for the next frame of the run.
ReceiveRun ==
    /\ pc = "service"
    /\ conn = "established"
    /\ trading_data.count < arg.len
    /\ ~trading_data.should_stop
    /\ \E k \in {trading_data.count + 1} :
          KeepQuote(FrameOf(RunBook(arg, k)), RunDraw(arg, k))
    /\ UNCHANGED <<driver_vars, pc, conn, algo, estimator, arg, benchmark, websocket>>

\* LWS_CALLBACK_CLIENT_RECEIVE for the frame that follows the run, a 10th
\* frame, with any book of the feed and any draw.
ReceiveTenth ==
    /\ pc = "service"
    /\ conn = "established"
    /\ trading_data.count = arg.len
    /\ ~trading_data.should_stop
    /\ \E json \in Frames, random_val \in QuotingDraws :
          KeepQuote(json, random_val)
    /\ UNCHANGED <<driver_vars, pc, conn, algo, estimator, arg, benchmark, websocket>>

LateNext == Established \/ ReceiveRun \/ ReceiveTenth

SpecLate == LateInit /\ [][LateNext]_vars

\* ------------------------------------------------------------------------
\* The engine given frames that are not well-formed book tickers
\* ------------------------------------------------------------------------

\* Frames the parser's validity test rejects: one without "b" and "a" (not a
\* book ticker), one without "a", one whose ask is below its bid.
MalformedFrames ==
    {Frame({"s"}, Decimal(FALSE, 0, 1), Decimal(FALSE, 0, 1), "BTCUSDT",
           Decimal(FALSE, 0, 1), Decimal(FALSE, 0, 1)),
     Frame({"b", "s", "B", "A"}, Decimal(FALSE, 3890000, 100),
           Decimal(FALSE, 0, 1), "BTCUSDT",
           Decimal(FALSE, 150, 100), Decimal(FALSE, 150, 100)),
     Frame({"b", "a", "s", "B", "A"}, Decimal(FALSE, 4000100, 100),
           Decimal(FALSE, 4000000, 100), "BTCUSDT",
           Decimal(FALSE, 150, 100), Decimal(FALSE, 150, 100))}

\* LWS_CALLBACK_CLIENT_RECEIVE for one of the two frames that follow the run:
\* any frame, well-formed or not, with any draw if it is a 10th frame.  The
\* frame and the draw are kept in ret.
ReceiveAny ==
    /\ pc = "service"
    /\ conn = "established"
    /\ trading_data.count >= arg.len
    /\ trading_data.count < arg.len + 2
    /\ ~trading_data.should_stop
    /\ \E json \in Frames \cup MalformedFrames,
          random_val \in (IF (trading_data.count + 1) % 10 = 0
                          THEN QuotingDraws ELSE {0}) :
          \E o \in {ReceiveOutcome(trading_data, pnl_tracker, database, json,
                                   random_val)} :
             /\ ReceiveApplied(o)
             /\ ret' = [json |-> json, random_val |-> random_val]
    /\ UNCHANGED <<driver_vars, pc, conn, algo, estimator, arg, benchmark, websocket>>

FeedNext == Established \/ ReceiveRun \/ ReceiveAny

SpecFeed == LateInit /\ [][FeedNext]_vars

\* ------------------------------------------------------------------------
\* The engine given a book of negative prices
\* ------------------------------------------------------------------------

\* A frame whose prices are written with a minus sign: -40001.00 / -40000.00.
NegativeFrames ==
    {FrameOf(<<Decimal(TRUE, 4000100, 100), Decimal(TRUE, 4000000, 100)>>)}

\* LWS_CALLBACK_CLIENT_RECEIVE for one of the two frames that follow the run:
\* a frame of the feed or the frame of negative prices, with any draw if it
\* is a 10th frame.
ReceiveSigned ==
    /\ pc = "service"
    /\ conn = "established"
    /\ trading_data.count >= arg.len
    /\ trading_data.count < arg.len + 2
    /\ ~trading_data.should_stop
    /\ \E json \in Frames \cup NegativeFrames,
          random_val \in (IF (trading_data.count + 1) % 10 = 0
                          THEN QuotingDraws ELSE {0}) :
          KeepQuote(json, random_val)
    /\ UNCHANGED <<driver_vars, pc, conn, algo, estimator, arg, benchmark, websocket>>

SignedNext == Established \/ ReceiveRun \/ ReceiveSigned

SpecSigned == LateInit /\ [][SignedNext]_vars

\* ------------------------------------------------------------------------
\* The engine over its first thousand frames: the validation of the fast
\* parser
\* ------------------------------------------------------------------------

\* Frames received in the run.
MaxParsed == 1010

\* The frames given at the 100th, 200th, ... frame: the book 40000.00 /
\* 40001.00 written plainly, the same book with the ask written "4.0001e4",
\* and a frame without "a".
ValidationFrames ==
    {FrameOf(HighBook),
     Frame({"b", "a", "s", "B", "A"}, HighBook[1], DecimalExp(FALSE, 40001, 10000, 4),
           "BTCUSDT", Decimal(FALSE, 150, 100), Decimal(FALSE, 150, 100)),
     Frame({"b", "s", "B", "A"}, HighBook[1], HighBook[2],
           "BTCUSDT", Decimal(FALSE, 150, 100), Decimal(FALSE, 150, 100))}

\* main() up to its service loop, about to receive up to MaxParsed frames
\* before the connection closes or the duration has elapsed.
ParserInit ==
    /\ TrackerInit
    /\ call = "none"
    /\ calls = 0
    /\ trading_data = TradingData(0, 0, 0, 0, 0, 0)
    /\ database = EmptyDatabase
    /\ kill_switch_activated = 0
    /\ pc = "service"
    /\ conn = "connecting"
    /\ moves = 0
    /\ crossed_at = 0
    /\ algo = AvellanedaStoikov
    /\ estimator = EWMACalculator(0, 0)
    /\ arg = <<>>
    /\ ret = <<>>
    /\ benchmark = LatencyBenchmark
    /\ websocket = BinanceWebSocket("BTCUSDT")

\* LWS_CALLBACK_CLIENT_RECEIVE for the next frame, kept in ret: any of
\* ValidationFrames if it is a 100th frame, the plain frame otherwise; the
\* draw of a quoting step is 0.5.
ReceiveValidated ==
    /\ pc = "service"
    /\ conn = "established"
    /\ trading_data.count < MaxParsed
    /\ ~trading_data.should_stop
    /\ \E json \in (IF (trading_data.count + 1) % 100 = 0
                    THEN ValidationFrames ELSE {FrameOf(HighBook)}) :
          \E o \in {ReceiveOutcome(trading_data, pnl_tracker, database, json,
                                   Dec(0, 5000))} :
             /\ ReceiveApplied(o)
             /\ ret' = json
    /\ UNCHANGED <<driver_vars, pc, conn, algo, estimator, arg, benchmark, websocket>>

ParserNext == Established \/ ReceiveValidated \/ Closed \/ ServiceLoop

SpecParser == ParserInit /\ [][ParserNext]_vars

\* ------------------------------------------------------------------------
\* The kill switch and the ways the engine stops
\* ------------------------------------------------------------------------

\* This step is the RECEIVE callback for a frame.
ReceiveStep == trading_data'.count = trading_data.count + 1

\* This step is the RECEIVE callback for a 10th frame: a quoting step.
QuotingReceive == ReceiveStep /\ trading_data'.count % 10 = 0

\* Total P&L is at or below the kill threshold.
AtKillThreshold == get_total_pnl(pnl_tracker) <= trading_data.pnl_kill_switch

\* main() has left its service loop.
Finished == pc = "done"

\* C1: in every quoting step that starts with get_total_pnl() <=
\* pnl_kill_switch the stop flag is set, and in that step no quote is counted,
\* no fill is applied and no position changes.
C1_KillSwitchBeforeQuote ==
    [][(QuotingReceive /\ AtKillThreshold)
       => /\ trading_data'.should_stop
          /\ trading_data'.quote_count = trading_data.quote_count
          /\ trading_data'.fill_count = trading_data.fill_count
          /\ fill' = fill
          /\ pnl_tracker' = pnl_tracker]_vars

\* C1 witness: the kill switch has just tripped in the quoting step of frame
\* 30, with a position open and two quotes counted before.
C1_Witness ==
    /\ kill_switch_activated = 1
    /\ trading_data.should_stop
    /\ trading_data.count % 10 = 0
    /\ AtKillThreshold
    /\ get_position(pnl_tracker, trading_data.symbol).quantity # 0
    /\ trading_data.quote_count = 2

\* C2 as claimed: once total P&L has come to the threshold, the stop flag is
\* set by the time the next frame has been handled.
C2_StopsByNextTick ==
    (crossed_at > 0 /\ trading_data.count > crossed_at)
        => trading_data.should_stop

\* C2 as the code has it: P&L changes and is checked in quoting steps only,
\* so once total P&L has come to the threshold the stop flag is set by the
\* time the next 10th frame, the 10th after the crossing, has been handled.
C2_StopsByNextQuotingStep ==
    (crossed_at > 0 /\ trading_data.count >= crossed_at + 10)
        => trading_data.should_stop

\* C2 witness: total P&L came to the threshold at frame 20 and the kill
\* switch, not a closed connection, set the stop flag at frame 30.
C2_Witness ==
    /\ crossed_at = 20
    /\ trading_data.count = crossed_at + 10
    /\ trading_data.should_stop
    /\ kill_switch_activated = 1
    /\ conn = "established"

\* C3 as claimed: when the engine has stopped, no appended tick row is still
\* pending.
C3_NoRowPendingWhenStopped ==
    Finished => trading_data.pending_db_writes = <<>>

\* The connection was never established: the engine stopped on a connection
\* error, before any session row was created.
ConnectionFailed == conn = "closed" /\ database.simulation_sessions = <<>>

\* C4 as claimed: when the engine has stopped by its kill switch, by the end
\* of its duration or by the close of its connection, exactly one terminal
\* session update has been emitted.
C4_OneTerminalSessionUpdate ==
    (Finished /\ ~ConnectionFailed) => Len(database.session_updates) = 1

\* ------------------------------------------------------------------------
\* Position::update_position and update_unrealized_pnl, checked on the tracker
\* ------------------------------------------------------------------------

\* This step is a call of update_fill for a supported symbol.
FillStep ==
    /\ calls' = calls + 1
    /\ call' = "update_fill"
    /\ string_to_symbol(fill'.symbol) # UNKNOWN

\* The position a FillStep updates, before and after the call.
PosBefore == pnl_tracker.positions_[string_to_symbol(fill'.symbol)]

PosAfter == pnl_tracker'.positions_[string_to_symbol(fill'.symbol)]

\* The fill is on the side opposite to the position q0 # 0.
OppositeSide(q0, f) == (q0 > 0 /\ ~f.is_buy) \/ (q0 < 0 /\ f.is_buy)

\* The fill is on the side of the position q0 # 0.
SameSide(q0, f) == (q0 > 0 /\ f.is_buy) \/ (q0 < 0 /\ ~f.is_buy)

\* The P&L of closing c units of a position q0 held at a0, at price p.
ClosedPnl(q0, a0, c, p) ==
    IF q0 > 0 THEN FMul(c, p - a0) ELSE FMul(c, a0 - p)

\* The position the latest update_fill call updated.
FilledPos == pnl_tracker.positions_[string_to_symbol(fill.symbol)]

\* The position the latest update_market_price call marked.
MarkedPos == pnl_tracker.positions_[string_to_symbol(mark[1])]

\* The state right after update_fill ran for a supported symbol.
AfterFill == call = "update_fill" /\ string_to_symbol(fill.symbol) # UNKNOWN

\* C5: an opposite-side fill of size s <= |q0| (a full close included) leaves
\* average_price unchanged, lowers |quantity| by s and adds exactly
\* s*(price - a0) (long) or s*(a0 - price) (short) to realized_pnl.
C5_ReduceKeepsAverage ==
    [][(FillStep /\ OppositeSide(PosBefore.quantity, fill')
          /\ fill'.size <= Abs(PosBefore.quantity))
       => /\ PosAfter.average_price = PosBefore.average_price
          /\ Abs(PosAfter.quantity) = Abs(PosBefore.quantity) - fill'.size
          /\ PosAfter.realized_pnl =
                PosBefore.realized_pnl
                  + ClosedPnl(PosBefore.quantity, PosBefore.average_price,
                              fill'.size, fill'.price)]_vars

\* C5 witness: a fill has just closed a position completely at a price other
\* than its average, and another has reduced one without closing it.
C5_Witness ==
    /\ AfterFill
    /\ OppositeSide(old_quantity, fill)
    /\ fill.size = Abs(old_quantity)
    /\ fill.price # old_avg_price
    /\ FilledPos.realized_pnl # 0

\* C6: a same-side fill, or a fill on a flat position, raises |quantity| by the
\* fill size, leaves realized_pnl unchanged and sets average_price to the
\* size-weighted mean, which lies between min(a0, p) and max(a0, p) and is p
\* when the position was flat.
C6_AddWeightedAverage ==
    [][(FillStep /\ (PosBefore.quantity = 0 \/ SameSide(PosBefore.quantity, fill')))
       => /\ Abs(PosAfter.quantity) = Abs(PosBefore.quantity) + fill'.size
          /\ PosAfter.realized_pnl = PosBefore.realized_pnl
          /\ PosAfter.average_price =
                FDiv(FMul(Abs(PosBefore.quantity), PosBefore.average_price)
                       + FMul(fill'.size, fill'.price),
                     Abs(PosAfter.quantity))
          /\ PosBefore.quantity = 0 => PosAfter.average_price = fill'.price
          /\ PosBefore.quantity # 0 =>
                /\ PosAfter.average_price
                      >= Min(PosBefore.average_price, fill'.price)
                /\ PosAfter.average_price
                      <= Max(PosBefore.average_price, fill'.price)]_vars

\* C6 witness: a same-side fill at a price other than the average has just
\* been applied, and the new average lies strictly between the two.
C6_Witness ==
    /\ AfterFill
    /\ SameSide(old_quantity, fill)
    /\ fill.price # old_avg_price
    /\ FilledPos.average_price
          > Min(old_avg_price, fill.price)
    /\ FilledPos.average_price
          < Max(old_avg_price, fill.price)

\* C7: an opposite-side fill of size s > |q0| (a flip) adds the P&L of exactly
\* the |q0| closed units at the old average to realized_pnl, leaves a quantity
\* of the opposite sign and magnitude s - |q0|, and sets average_price to the
\* fill price.
C7_FlipOpensAtFillPrice ==
    [][(FillStep /\ OppositeSide(PosBefore.quantity, fill')
          /\ fill'.size > Abs(PosBefore.quantity))
       => /\ PosAfter.realized_pnl =
                PosBefore.realized_pnl
                  + ClosedPnl(PosBefore.quantity, PosBefore.average_price,
                              Abs(PosBefore.quantity), fill'.price)
          /\ Sgn(PosAfter.quantity) = -Sgn(PosBefore.quantity)
          /\ Abs(PosAfter.quantity) = fill'.size - Abs(PosBefore.quantity)
          /\ PosAfter.average_price = fill'.price]_vars

\* C7 witness: a fill larger than the position has just flipped it, at a
\* price other than the old average.
C7_Witness ==
    /\ AfterFill
    /\ OppositeSide(old_quantity, fill)
    /\ fill.size > Abs(old_quantity)
    /\ fill.price # old_avg_price
    /\ Sgn(FilledPos.quantity) = -Sgn(old_quantity)

\* The P&L realized by applying fill f to position pos: that of the closed
\* portion min(|q0|, s) for an opposite-side fill, nothing otherwise.
RealizedByFill(pos, f) ==
    IF OppositeSide(pos.quantity, f)
    THEN ClosedPnl(pos.quantity, pos.average_price,
                   Min(Abs(pos.quantity), f.size), f.price)
    ELSE 0

C9_AverageZeroIffFlat ==
    \A i \in Slots : (pnl_tracker.positions_[i].average_price = 0) <=> (pnl_tracker.positions_[i].quantity = 0)

\* C9 as the code has it: an open position has a non-zero average price
\* (average_price = 0 only if quantity = 0); a position that was closed keeps
\* its last average price while flat.
C9_OpenHasAverage ==
    \A i \in Slots : pnl_tracker.positions_[i].quantity # 0 => pnl_tracker.positions_[i].average_price > 0

\* C9 witness: one position is open and another has been closed and is flat
\* with its average price still set.
C9_Witness ==
    /\ \E i \in Slots : pnl_tracker.positions_[i].quantity # 0
    /\ \E i \in Slots : pnl_tracker.positions_[i].quantity = 0 /\ pnl_tracker.positions_[i].average_price # 0

\* This step is a call of update_market_price for a supported symbol.
MarkStep ==
    /\ calls' = calls + 1
    /\ call' = "update_market_price"
    /\ string_to_symbol(mark'[1]) # UNKNOWN

\* The slot the latest update_market_price call marked.
MarkedSlot == string_to_symbol(mark[1])

\* C10: after update_market_price(symbol, m) for a known symbol the position's
\* unrealized P&L is quantity * (m - average_price), the short quantity taken
\* as negative, and 0 when flat; marking again with the same m changes nothing.
C10_MarkToMarket ==
    /\ [](call = "update_market_price" /\ MarkedSlot # UNKNOWN
          => MarkedPos.unrealized_pnl =
                IF MarkedPos.quantity = 0 THEN 0
                ELSE FMul(MarkedPos.quantity,
                          mark[2] - MarkedPos.average_price))
    /\ [][(MarkStep /\ call = "update_market_price" /\ mark' = mark)
          => UNCHANGED pnl_tracker]_vars

\* C10 witness: a short position has just been marked at a price other than
\* its average, after an earlier call.
C10_Witness ==
    /\ call = "update_market_price"
    /\ MarkedSlot # UNKNOWN
    /\ calls >= 2
    /\ mark[2] # MarkedPos.average_price
    /\ MarkedPos.quantity < 0
    /\ MarkedPos.unrealized_pnl # 0

\* ------------------------------------------------------------------------
\* The mark to market in the engine, and the frame of the tracker's calls
\* ------------------------------------------------------------------------

\* The engine's position in the symbol of the feed.
EnginePos(td, tr) == get_position(tr, td.symbol)

\* The engine's position is marked at the mid of the book held in td:
\* unrealized P&L = quantity * (mid - average_price), 0 when flat.
MarkedToMid(td, tr) ==
    EnginePos(td, tr).unrealized_pnl =
        IF EnginePos(td, tr).quantity = 0 THEN 0
        ELSE FMul(EnginePos(td, tr).quantity,
                  Half(td.bid + td.ask) - EnginePos(td, tr).average_price)

\* This RECEIVE step counted a quote: a quoting step whose kill switch did
\* not trip and whose quote was valid.
QuoteCounted == trading_data'.quote_count = trading_data.quote_count + 1

\* C11 as claimed: after any frame has been handled, the position's
\* unrealized P&L equals quantity * (that frame's mid - average_price).
C11_MarkedEveryTick ==
    trading_data.count > 0 => MarkedToMid(trading_data, pnl_tracker)

\* C11 as the code has it: every RECEIVE step that counts a quote (a 10th
\* frame, kill switch not tripped, quote valid) leaves unrealized P&L at
\* quantity * (that frame's mid - average_price), whether or not a fill
\* happened in it; every other RECEIVE step leaves the tracker, and so the
\* unrealized P&L, as it was.
C11_MarkedEveryCountedQuote ==
    [][ReceiveStep
       => IF QuoteCounted
          THEN MarkedToMid(trading_data', pnl_tracker')
          ELSE pnl_tracker' = pnl_tracker]_vars

\* C11 witness: the quoting step of frame 20 has counted a quote without a
\* fill and has marked the position opened at frame 10 at the new mid, to a
\* P&L other than 0.
C11_Witness ==
    /\ trading_data.count = 20
    /\ trading_data.quote_count = 2
    /\ trading_data.fill_count = 1
    /\ mark = <<trading_data.symbol, Half(trading_data.bid + trading_data.ask)>>
    /\ EnginePos(trading_data, pnl_tracker).quantity # 0
    /\ EnginePos(trading_data, pnl_tracker).unrealized_pnl # 0
    /\ moves = 1
    /\ MarkedToMid(trading_data, pnl_tracker)

\* This step is a call of the tracker by the test driver.
TrackerCall == calls' = calls + 1

\* The symbol the call of this step names.
CalledSymbol == IF call' = "update_fill" THEN fill'.symbol ELSE mark'[1]

\* The names Symbol.h gives slot i of the position table.
SlotNames(i) ==
    CASE i = 0 -> {"BTCUSDT", "BTC"}
      [] i = 1 -> {"ETHUSDT", "ETH"}
      [] i = 2 -> {"SOLUSDT", "SOL"}
      [] OTHER -> {"BNBUSDT", "BNB"}

\* C12: update_fill and update_market_price for symbol X leave every slot of
\* the position table but X's as it was; for a symbol that names no slot
\* they leave the whole tracker, positions and aggregates, as it was; and the
\* table keeps its four slots.
C12_OnlyOwnSlotChanges ==
    [][TrackerCall
       => /\ DOMAIN pnl_tracker'.positions_ = Slots
          /\ \A i \in Slots :
                CalledSymbol \notin SlotNames(i)
                   => pnl_tracker'.positions_[i] = pnl_tracker.positions_[i]
          /\ (\A i \in Slots : CalledSymbol \notin SlotNames(i))
                => pnl_tracker' = pnl_tracker]_vars

\* C12 witness: with a position open in ETH, a call for BTC has just changed
\* the BTC slot and left the ETH slot as it was.
C12_Witness ==
    /\ calls = MaxCalls
    /\ pnl_tracker.positions_[1].quantity # 0
    /\ pnl_tracker.positions_[1].unrealized_pnl = 0
    /\ call = "update_market_price"
    /\ mark[1] = "BTCUSDT"
    /\ pnl_tracker.positions_[0].unrealized_pnl # 0

\* ------------------------------------------------------------------------
\* The quote generator: spread, midpoint and the batch entry point
\* ------------------------------------------------------------------------

\* gamma * sigma^2 * T + (2 / gamma) * ln(1 + gamma / kappa) for engine eng
\* and volatility sigma.
SpreadWith(eng, sigma) ==
    MulDiv(MulDiv(FMul(eng.gamma_, sigma), sigma, (PS * PS) \div GS), eng.T_, GS)
      + MulDiv(eng.gamma_inv_, eng.log_constant_, VS)

\* m - q * gamma * sigma^2 * T for engine eng and volatility sigma.
ReservationWith(eng, sigma, m, q) ==
    m - MulDiv(MulDiv(q, MulDiv(FMul(eng.gamma_, sigma), sigma, (PS * PS) \div GS),
                      PS),
               eng.T_, GS)

\* Quote qu has the spread and the midpoint of the formulas for volatility
\* sigma, to one unit of the grid.
QuoteFollows(eng, sigma, tick, q, qu) ==
    /\ Abs(spread(qu) - SpreadWith(eng, sigma)) <= 1
    /\ Abs(Half(qu.bid_price + qu.ask_price)
             - ReservationWith(eng, sigma, mid_price(tick), q)) <= 1

\* C13 as claimed: the quote calculate_quotes returns for a tick and an
\* inventory q has ask - bid = gamma*sigma^2*T + (2/gamma)*ln(1 + gamma/kappa)
\* and (bid + ask)/2 = m - q*gamma*sigma^2*T for one sigma, the engine's or
\* the tick's.
C13_OneSigmaInSpreadAndMidpoint ==
    call = "calculate_quotes"
       => \E sigma \in {algo.sigma_} \cup ({arg.tick.volatility} \ {0}) :
             QuoteFollows(algo, sigma, arg.tick, arg.inventory, ret)

\* This step is a call of calculate_quotes_batch.
BatchStep == calls' = calls + 1 /\ call' = "calculate_quotes_batch"

\* Quotes a and b have the same prices and sizes.
SameQuote(a, b) ==
    /\ a.bid_price = b.bid_price
    /\ a.ask_price = b.ask_price
    /\ a.bid_size = b.bid_size
    /\ a.ask_size = b.ask_size

\* C14: calculate_quotes_batch given vectors of equal length n returns n
\* quotes, the i-th with the prices and sizes of calculate_quotes(ticks[i],
\* inventories[i]) (none for n = 0) and throws nothing; given vectors of
\* different lengths it throws invalid_argument and returns no quotes.
C14_BatchEqualsPerTick ==
    [][BatchStep
       => IF Len(arg'.ticks) = Len(arg'.inventories)
          THEN /\ ret'.thrown = ""
               /\ Len(ret'.quotes) = Len(arg'.ticks)
               /\ \A i \in 1 .. Len(arg'.ticks) :
                     SameQuote(ret'.quotes[i],
                               calculate_quotes(algo, arg'.ticks[i],
                                                arg'.inventories[i]))
          ELSE /\ ret'.thrown = "invalid_argument"
               /\ ret'.quotes = <<>>]_vars

\* C14 witness: a batch of two ticks with different inventories has returned
\* two different quotes, and an earlier call was made.
C14_Witness ==
    /\ call = "calculate_quotes_batch"
    /\ calls >= 2
    /\ Len(arg.ticks) = 2
    /\ ret.thrown = ""
    /\ Len(ret.quotes) = 2
    /\ arg.inventories[1] # arg.inventories[2]
    /\ ret.quotes[1].bid_price # ret.quotes[2].bid_price

\* ------------------------------------------------------------------------
\* The quoting step: spread widening and the fill simulation
\* ------------------------------------------------------------------------

\* The position the quoting step of this RECEIVE step starts from.
PositionQuoted == EnginePos(trading_data', pnl_tracker)

\* The quote the quote generator gives the quoting step of this RECEIVE step.
GeneratedQuote ==
    calculate_quotes(trading_data'.engine,
                     MarketTick(trading_data'.symbol, trading_data'.bid,
                                trading_data'.ask, 0,
                                get_volatility(trading_data'.engine)),
                     PositionQuoted.quantity)

\* rho = |q| / max_inventory for the quoting step of this RECEIVE step.
InventoryRatio ==
    FDiv(Abs(PositionQuoted.quantity), trading_data'.max_inventory)

\* This RECEIVE step made one simulated fill, on the bid / on the ask: the
\* fill counter rose by one and the position by +0.01 / -0.01.
BidFilledIn ==
    /\ trading_data'.fill_count = trading_data.fill_count + 1
    /\ EnginePos(trading_data', pnl_tracker').quantity =
          PositionQuoted.quantity + Dec(0, 100)

AskFilledIn ==
    /\ trading_data'.fill_count = trading_data.fill_count + 1
    /\ EnginePos(trading_data', pnl_tracker').quantity =
          PositionQuoted.quantity - Dec(0, 100)

\* C15: in a quoting step that counts a quote, with rho = |q| / max_inventory
\* of the position before the step: for rho > 0.5 the quote used has the
\* generated quote's spread times 1 + (rho - 0.5) * max_spread_multiplier (to
\* one unit of the price grid) and the generated quote's midpoint; for
\* rho <= 0.5 it is the generated quote; a fill of the step is made at the
\* price of that quote, so widening comes before the fill simulation.
C15_WidenedAboveHalfInventory ==
    [][(QuotingReceive /\ QuoteCounted)
       => /\ IF InventoryRatio > Dec(0, 5000)
             THEN /\ Abs(spread(ret'.quote)
                         - FMul(spread(GeneratedQuote),
                                Dec(1, 0)
                                + FMul(InventoryRatio - Dec(0, 5000),
                                       trading_data'.max_spread_multiplier)))
                        <= 1
                  /\ ret'.quote.bid_price + ret'.quote.ask_price =
                        GeneratedQuote.bid_price + GeneratedQuote.ask_price
             ELSE SameQuote(ret'.quote, GeneratedQuote)
          /\ BidFilledIn => fill'.is_buy /\ fill'.price = ret'.quote.bid_price
          /\ AskFilledIn => ~fill'.is_buy /\ fill'.price = ret'.quote.ask_price]_vars

\* C15 witness: the quoting step of frame 70, entered with 0.06 long against
\* max_inventory 0.1 (rho = 0.6), has quoted a spread 1.3 times the spread
\* the engine's sigma gives, and has filled its bid at the widened price.
C15_Witness ==
    /\ trading_data.count = 70
    /\ trading_data.fill_count = 7
    /\ EnginePos(trading_data, pnl_tracker).quantity = Dec(0, 700)
    /\ fill.is_buy
    /\ fill.price = ret.quote.bid_price
    /\ Abs(spread(ret.quote)
           - FMul(SpreadWith(trading_data.engine, get_volatility(trading_data.engine)),
                  Dec(1, 3000))) <= 2

\* |price - public| / public, the distance of a quoted price from the public
\* price of its side.
RelativeDistance(price, public) == FDiv(Abs(price - public), public)

\* C16: in a quoting step that counts a quote, the bid is filled iff the
\* quote's bid is less than 0.001 (strictly) from the public bid, relative to
\* it, and the draw u is < 0.05; the ask is filled iff the quote's ask is
\* less than 0.001 from the public ask and u > 0.95; a side exactly 0.001
\* away is not filled whatever the draw.
C16_FillIffCompetitiveAndDrawn ==
    [][(QuotingReceive /\ QuoteCounted)
       => /\ BidFilledIn <=>
                (/\ RelativeDistance(ret'.quote.bid_price, trading_data'.bid)
                       < Dec(0, 10)
                 /\ ret'.random_val < Dec(0, 500))
          /\ AskFilledIn <=>
                (/\ RelativeDistance(ret'.quote.ask_price, trading_data'.ask)
                       < Dec(0, 10)
                 /\ ret'.random_val > Dec(0, 9500))
          /\ RelativeDistance(ret'.quote.bid_price, trading_data'.bid) = Dec(0, 10)
                => ~BidFilledIn
          /\ RelativeDistance(ret'.quote.ask_price, trading_data'.ask) = Dec(0, 10)
                => ~AskFilledIn]_vars

\* C16 witness: after a book that rose 32 frames earlier, the quoting step of
\* frame 40 has quoted a bid 0.001 from the public bid and, with the draw
\* 0.01, has filled nothing.
C16_Witness ==
    /\ trading_data.count = 40
    /\ trading_data.quote_count = 4
    /\ trading_data.fill_count = 0
    /\ ret.random_val = Dec(0, 100)
    /\ RelativeDistance(ret.quote.bid_price, trading_data.bid) = Dec(0, 10)
    /\ EnginePos(trading_data, pnl_tracker).quantity = 0

\* Every value the draw random_val can take on a grid of 0.01: 0, 0.01 .. 1.
AllDraws == {i * Dec(0, 100) : i \in 0 .. 100}

\* C17 as claimed: where the engine is about to take a quoting step, some
\* frame and some draw make that step fill both its bid and its ask.
C17_TwoFillsInOneStep ==
    (/\ conn = "established"
     /\ trading_data.count = arg.len
     /\ ~trading_data.should_stop)
       => \E json \in Frames, random_val \in AllDraws :
             \E o \in {ReceiveOutcome(trading_data, pnl_tracker, database,
                                      json, random_val)} :
                o.q.valid /\ o.q.bid_filled /\ o.q.ask_filled

\* C17 as the code has it: a RECEIVE step makes at most one fill, never a
\* bid fill and an ask fill together: the fill counter rises by at most one,
\* and the position moves by 0.01 when it rises and not at all otherwise.
C17_AtMostOneFillPerStep ==
    [][ReceiveStep
       => \/ /\ trading_data'.fill_count = trading_data.fill_count
             /\ EnginePos(trading_data', pnl_tracker').quantity =
                   PositionQuoted.quantity
          \/ BidFilledIn
          \/ AskFilledIn]_vars

\* C17 witness: a quoting step with both sides of the quote within 0.001 of
\* the public prices and the draw 0.99 has filled the ask and not the bid.
C17_Witness ==
    /\ trading_data.count = 10
    /\ trading_data.fill_count = 1
    /\ ret.random_val = Dec(0, 9900)
    /\ RelativeDistance(ret.quote.bid_price, trading_data.bid) < Dec(0, 10)
    /\ RelativeDistance(ret.quote.ask_price, trading_data.ask) < Dec(0, 10)
    /\ ~fill.is_buy
    /\ EnginePos(trading_data, pnl_tracker).quantity = -Dec(0, 100)

\* ------------------------------------------------------------------------
\* The volatility estimator
\* ------------------------------------------------------------------------

\* This step is a call of update.
UpdateStep == calls' = calls + 1 /\ call' = "update"

\* v = alpha * r^2 + (1 - alpha) * v for r = ln(price / last) in units of
\* 1/VS, price and last positive.
EwmaOf(alpha, price, last, v) ==
    MulDiv(alpha, MulDiv(Ln(price, last), Ln(price, last), VS), PS)
    + MulDiv(Dec(1, 0) - alpha, v, PS)

\* C18: the first price given to the estimator sets last_price and the
\* initialized flag and leaves EWMA variance and reported volatility as they
\* were; a later price > 0 that follows a price > 0 sets the variance to
\* alpha * r^2 + (1 - alpha) * variance, r = ln(price / last_price), and then
\* last_price to the price.
C18_FirstPriceLatchesLaterPricesAverage ==
    [][UpdateStep
       => IF ~estimator.initialized_
          THEN /\ estimator'.initialized_
               /\ estimator'.last_price_ = arg'
               /\ estimator'.ewma_variance_ = estimator.ewma_variance_
               /\ estimator'.current_vol_ = estimator.current_vol_
          ELSE (arg' > 0 /\ estimator.last_price_ > 0
                         /\ IsFinite(estimator.ewma_variance_))
                  => /\ estimator'.ewma_variance_ =
                           EwmaOf(estimator.alpha_, arg', estimator.last_price_,
                                  estimator.ewma_variance_)
                     /\ estimator'.last_price_ = arg'
                     /\ estimator'.initialized_]_vars

\* C18 witness: three prices > 0 have been given, the first latched, the
\* second and third, different from their predecessors, averaged into a
\* variance above 0, and the last one is held as last_price.
C18_Witness ==
    /\ call = "update"
    /\ calls = 3
    /\ estimator.initialized_
    /\ estimator.last_price_ = Dec(38900, 5000)
    /\ arg = Dec(38900, 5000)
    /\ IsFinite(estimator.ewma_variance_)
    /\ estimator.ewma_variance_ > 2 * (VS \div PS)
    /\ IsFinite(estimator.current_vol_)
    /\ estimator.current_vol_ > estimator.min_vol_

\* C19: an update with a price <= 0 is skipped: last_price, the initialized
\* flag, the EWMA variance and the reported volatility stay as they were.
C19_NonPositivePriceSkipped ==
    [][(UpdateStep /\ arg' <= 0)
       => /\ estimator'.last_price_ = estimator.last_price_
          /\ estimator'.initialized_ = estimator.initialized_
          /\ estimator'.ewma_variance_ = estimator.ewma_variance_
          /\ estimator'.current_vol_ = estimator.current_vol_]_vars

\* The double x compares >= the number y: no NaN does, +infinity does.
AtLeast(x, y) == x # NaN /\ x # NegInf /\ (x = PosInf \/ x >= y)

\* C20: in every state of the estimator the reported volatility, and the
\* sigma the engine has been given, is >= min_vol.
C20_VolatilityAtLeastFloor ==
    /\ AtLeast(estimator.current_vol_, estimator.min_vol_)
    /\ AtLeast(get_volatility(algo), estimator.min_vol_)

\* ------------------------------------------------------------------------
\* Frames that are not well-formed, and the switch to the fast parser
\* ------------------------------------------------------------------------

\* The frame lacks "b" or "a", or its prices fail bid > 0, ask > 0, ask > bid.
Malformed(json) ==
    \/ ~({"b", "a"} \subseteq json.has)
    \/ ~(stod(json.b) > 0 /\ stod(json.a) > 0 /\ stod(json.a) > stod(json.b))

\* This step is RECEIVE for a frame that follows the run, kept in ret'.
ReceiveAnyStep == ReceiveStep /\ trading_data.count >= arg.len

\* C21: a RECEIVE step for a malformed frame leaves the stored bid and ask,
\* the estimator and the engine's sigma, the tracker and the quote and fill
\* counters as they were.
C21_MalformedFrameDropped ==
    [][(ReceiveAnyStep /\ Malformed(ret'.json))
       => /\ trading_data'.bid = trading_data.bid
          /\ trading_data'.ask = trading_data.ask
          /\ trading_data'.volatility_estimator = trading_data.volatility_estimator
          /\ get_volatility(trading_data'.engine) = get_volatility(trading_data.engine)
          /\ pnl_tracker' = pnl_tracker
          /\ trading_data'.quote_count = trading_data.quote_count
          /\ trading_data'.fill_count = trading_data.fill_count]_vars

\* The fast parse of the frame agrees with the reference parse: the frame
\* has "b" and "a", and fast_atof and std::stod give the same bid and ask.
ParsesAgree(json) ==
    /\ {"b", "a"} \subseteq json.has
    /\ fast_atof(json.b) = stod(json.b)
    /\ fast_atof(json.a) = stod(json.a)

\* C22: the 100th, 200th, ... 1000th frame is validated, and counted as
\* passed iff its two parses agree; the engine switches to the fast parser
\* only with every validation made so far passed; while a validation has
\* failed the fast parser is off; once on it is never switched off.
C22_FastParserOnlyAfterAllPassed ==
    [][ReceiveStep
       => /\ IF trading_data'.count % 100 = 0 /\ trading_data'.count <= 1000
             THEN /\ trading_data'.fast_json_validation_count =
                        trading_data.fast_json_validation_count + 1
                  /\ trading_data'.fast_json_validation_passed =
                        trading_data.fast_json_validation_passed
                          + (IF ParsesAgree(ret') THEN 1 ELSE 0)
             ELSE /\ trading_data'.fast_json_validation_count =
                        trading_data.fast_json_validation_count
                  /\ trading_data'.fast_json_validation_passed =
                        trading_data.fast_json_validation_passed
          /\ (trading_data'.use_fast_json_parser
                /\ ~trading_data.use_fast_json_parser)
                => trading_data'.fast_json_validation_passed =
                      trading_data'.fast_json_validation_count
          /\ trading_data'.fast_json_validation_passed
                < trading_data'.fast_json_validation_count
                => ~trading_data'.use_fast_json_parser
          /\ trading_data.use_fast_json_parser
                => trading_data'.use_fast_json_parser]_vars

\* C22 witness: ten validations made, all passed, the fast parser switched
\* on at frame 1000 and still on at frame 1005.
C22_Witness ==
    /\ trading_data.count = 1005
    /\ trading_data.use_fast_json_parser
    /\ trading_data.fast_json_validation_count = 10
    /\ trading_data.fast_json_validation_passed = 10

\* ------------------------------------------------------------------------
\* The rows given to the store
\* ------------------------------------------------------------------------

\* The tick rows the store has been given, over all flushes.
RECURSIVE RowsIn(_)
RowsIn(batches) ==
    IF batches = <<>> THEN 0 ELSE Len(Head(batches)) + RowsIn(Tail(batches))

\* C23: while the engine runs, n ticks processed have given the store
\* n \div 50 flushes of tick rows, each of 50 rows; once main() has left its
\* loop the store has got one more flush with the n % 50 rows left, so n rows
\* in all.
C23_FlushPerFiftyTicks ==
    LET n    == trading_data.count
        full == n \div DB_BATCH_SIZE
    IN  /\ Len(database.market_ticks) >= full
        /\ \A i \in 1 .. full : Len(database.market_ticks[i]) = DB_BATCH_SIZE
        /\ pc = "service" => Len(database.market_ticks) = full
        /\ pc = "done" => RowsIn(database.market_ticks) = n

\* C24 as claimed: quote rows and stat rows reach the store only in batches
\* of 50 or at the flush of shutdown: while the engine runs, the store holds
\* a multiple of 50 of each.
C24_QuoteAndStatRowsBatched ==
    pc = "service"
       => /\ Len(database.as_quotes) % DB_BATCH_SIZE = 0
          /\ Len(database.trading_stats) % DB_BATCH_SIZE = 0

\* C24 as the code has it: tick rows reach the store only as a whole batch,
\* the buffer of pending rows, of 50 rows when RECEIVE flushes it and of what
\* is left when the duration check flushes it; a quote row and a stat row are
\* written one by one, each by the RECEIVE step of a 10th frame that has not
\* tripped the kill switch, once a quote has been counted, and by no other
\* step.
C24_TickRowsBatchedOthersSingly ==
    [][/\ database'.market_ticks # database.market_ticks
          => /\ Len(database'.market_ticks) = Len(database.market_ticks) + 1
             /\ SubSeq(database'.market_ticks, 1, Len(database.market_ticks)) =
                   database.market_ticks
             /\ trading_data'.pending_db_writes = <<>>
             /\ trading_data'.db_batch_count = 0
             /\ IF ReceiveStep
                THEN /\ Len(database'.market_ticks[Len(database'.market_ticks)]) =
                           DB_BATCH_SIZE
                     /\ SubSeq(database'.market_ticks[Len(database'.market_ticks)],
                               1, DB_BATCH_SIZE - 1) = trading_data.pending_db_writes
                ELSE database'.market_ticks[Len(database'.market_ticks)] =
                        trading_data.pending_db_writes
       /\ Len(trading_data'.pending_db_writes) < DB_BATCH_SIZE
       /\ IF ReceiveStep /\ trading_data'.count % 10 = 0
             /\ ~trading_data'.should_stop /\ trading_data'.quote_count > 0
          THEN /\ Len(database'.as_quotes) = Len(database.as_quotes) + 1
               /\ Len(database'.trading_stats) = Len(database.trading_stats) + 1
          ELSE /\ database'.as_quotes = database.as_quotes
               /\ database'.trading_stats = database.trading_stats]_vars

\* C24 witness: after 510 frames the store has got one batch of 50 tick rows
\* and 51 quote rows and 51 stat rows, and one tick row is pending.
C24_Witness ==
    /\ trading_data.count = 510
    /\ Len(database.market_ticks) = 1
    /\ Len(database.market_ticks[1]) = DB_BATCH_SIZE
    /\ Len(trading_data.pending_db_writes) = 1
    /\ Len(database.as_quotes) = 51
    /\ Len(database.trading_stats) = 51

\* ------------------------------------------------------------------------
\* The LatencyBenchmark on its own: what the ScopedTimers give it
\* ------------------------------------------------------------------------

\* Records made in all.
MaxRecords == 1003

\* Records made before the long run of one operation starts.
FreeRecords == 1

\* Two of the operations that BENCHMARK_SCOPE names.
Operations == {"AvellanedaStoikov::calculate_quotes", "PnLTracker::update_fill"}

\* What Timer::elapsed_ns() gives: a time below and a time above the times
\* of the run.
Latencies == {0, 100}

\* The time of the k-th record of the run.
RunLatency(k) == 10 + ((7 * k) % 13)

LatencyInit ==
    /\ TrackerInit
    /\ call = "none"
    /\ calls = 0
    /\ trading_data = TradingData(0, 0, 0, 0, 0, 0)
    /\ database = EmptyDatabase
    /\ kill_switch_activated = 0
    /\ pc = "test"
    /\ conn = "closed"
    /\ moves = 0
    /\ crossed_at = 0
    /\ algo = AvellanedaStoikov
    /\ estimator = EWMACalculator(0, 0)
    /\ arg = <<>>
    /\ ret = <<>>
    /\ benchmark = LatencyBenchmark
    /\ websocket = BinanceWebSocket("BTCUSDT")

\* ~ScopedTimer(): record(operation_, timer_.elapsed_ns()).  arg is the list
\* of the records made since the benchmark was constructed or reset.
Recorded(operation, latency_ns) ==
    /\ benchmark' = record(benchmark, operation, latency_ns)
    /\ arg' = Append(arg, <<operation, latency_ns>>)
    /\ ret' = <<>>
    /\ call' = "record"
    /\ calls' = calls + 1
    /\ UNCHANGED <<tracker_vars, engine_vars, algo, estimator, websocket>>

\* A timer of any operation ends: before the run with the time of the run,
\* after it with any time.
CallRecord ==
    /\ Len(arg) < FreeRecords \/ Len(arg) >= KEPT_SAMPLES - 1
    /\ Len(arg) < MaxRecords
    /\ \E operation \in Operations,
          latency_ns \in (IF Len(arg) < FreeRecords
                          THEN {RunLatency(Len(arg))} ELSE Latencies) :
          Recorded(operation, latency_ns)

\* The timers of a run of calculate_quotes end.
RecordRun ==
    /\ Len(arg) >= FreeRecords
    /\ Len(arg) < KEPT_SAMPLES - 1
    /\ Recorded("AvellanedaStoikov::calculate_quotes", RunLatency(Len(arg)))

\* LatencyBenchmark::instance().reset(), as the performance test calls it
CallReset ==
    /\ benchmark' = reset(benchmark)
    /\ arg' = <<>>
    /\ ret' = <<>>
    /\ call' = "reset"
    /\ calls' = 0
    /\ UNCHANGED <<tracker_vars, engine_vars, algo, estimator, websocket>>

LatencyNext == CallRecord \/ RecordRun \/ CallReset

SpecLatency == LatencyInit /\ [][LatencyNext]_vars

\* The records of an operation among the records made, in arrival order.
RecordsOf(operation) ==
    LET OfOperation(r) == r[1] = operation
        made == SelectSeq(arg, OfOperation)
    IN  [i \in 1 .. Len(made) |-> made[i][2]]

RECURSIVE SumFromTo(_, _, _)
SumFromTo(s, lo, hi) ==
    IF lo > hi THEN 0
    ELSE IF lo = hi THEN s[lo]
    ELSE LET mid == (lo + hi) \div 2
         IN  SumFromTo(s, lo, mid) + SumFromTo(s, mid + 1, hi)

\* C25: an operation has an entry if and only if a record of it was made,
\* and then the entry's count is the number of its records, total_ns their
\* sum, min_ns and max_ns the least and the greatest of them, with
\* min <= avg <= max, and samples the last min(count, 1000) of them in the
\* order they came, never more than 1000.
C25_StatsOfRecords ==
    \A operation \in Operations :
       LET made == RecordsOf(operation)
           n == Len(made)
           values == {made[i] : i \in 1 .. n}
       IN  IF n = 0 THEN operation \notin DOMAIN benchmark.stats_
           ELSE /\ operation \in DOMAIN benchmark.stats_
                /\ LET stats == benchmark.stats_[operation]
                       kept == IF n < KEPT_SAMPLES THEN n ELSE KEPT_SAMPLES
                   IN  /\ stats.operation_name = operation
                       /\ stats.count = n
                       /\ stats.total_ns = SumFromTo(made, 1, n)
                       /\ stats.min_ns \in values
                       /\ \A v \in values : stats.min_ns <= v
                       /\ stats.max_ns \in values
                       /\ \A v \in values : v <= stats.max_ns
                       /\ stats.min_ns * PS <= avg_ns(stats)
                       /\ avg_ns(stats) <= stats.max_ns * PS
                       /\ Len(stats.samples) <= KEPT_SAMPLES
                       /\ stats.samples = SubSeq(made, n - kept + 1, n)

\* C25 witness: calculate_quotes has been recorded more than 1000 times, so
\* that its oldest record is no longer kept, and update_fill has an entry.
C25_Witness ==
    /\ "PnLTracker::update_fill" \in DOMAIN benchmark.stats_
    /\ "AvellanedaStoikov::calculate_quotes" \in DOMAIN benchmark.stats_
    /\ LET stats == benchmark.stats_["AvellanedaStoikov::calculate_quotes"]
       IN  /\ stats.count = KEPT_SAMPLES + 1
           /\ Len(stats.samples) = KEPT_SAMPLES
           /\ stats.samples[1] = RunLatency(2)
           /\ stats.min_ns = 0
           /\ stats.max_ns = 100

\* C26 as claimed: in every state of a run the size of the position is at
\* most max_inventory.
C26_PositionWithinMaxInventory ==
    Abs(EnginePos(trading_data, pnl_tracker).quantity) <= trading_data.max_inventory

\* C27: after any calls of update_fill and update_market_price, the
\* tracker's realized P&L is the sum of the four positions' realized_pnl, its
\* unrealized P&L the sum of their unrealized_pnl, and get_total_pnl() the
\* sum of the two sums.
C27_TotalsAreSumsOfPositions ==
    LET p == pnl_tracker.positions_
        realized == p[0].realized_pnl + p[1].realized_pnl
                       + p[2].realized_pnl + p[3].realized_pnl
        unrealized == p[0].unrealized_pnl + p[1].unrealized_pnl
                         + p[2].unrealized_pnl + p[3].unrealized_pnl
    IN  /\ DOMAIN p = 0 .. 3
        /\ pnl_tracker.realized_pnl_ = realized
        /\ pnl_tracker.unrealized_pnl_ = unrealized
        /\ get_total_pnl(pnl_tracker) = realized + unrealized

\* C27 witness: a position has been opened, closed in part at another price
\* and what is left of it marked at a third price, so that both totals are
\* there.
C27_Witness ==
    /\ call = "update_market_price"
    /\ pnl_tracker.realized_pnl_ # 0
    /\ pnl_tracker.unrealized_pnl_ # 0
    /\ get_total_pnl(pnl_tracker) # pnl_tracker.realized_pnl_

\* ------------------------------------------------------------------------
\* The quote generator with its parameters set, then asked for quotes
\* ------------------------------------------------------------------------

\* Calls made of the setters and of calculate_quotes.
MaxSets == 3

\* Values given to the setters: the constructor's and another.
Gammas == {Dec(0, 1000), Dec(0, 2000)}

Sigmas == {Dec(0, 500), Dec(0, 200)}

Horizons == {Dec(60, 0), Dec(30, 0)}

Kappas == {Dec(1, 5000), Dec(2, 0)}

\* A setter was called with value: the object after it.
CalledSetter(name, value, eng) ==
    /\ calls < MaxSets
    /\ algo' = eng
    /\ arg' = value
    /\ ret' = <<>>
    /\ call' = name
    /\ calls' = calls + 1
    /\ UNCHANGED <<tracker_vars, engine_vars, estimator, benchmark, websocket>>

CallSetRiskAversion ==
    \E gamma \in Gammas :
       CalledSetter("set_risk_aversion", gamma, set_risk_aversion(algo, gamma))

CallSetVolatility ==
    \E sigma \in Sigmas :
       CalledSetter("set_volatility", sigma, set_volatility(algo, sigma))

CallSetTimeHorizon ==
    \E T \in Horizons :
       CalledSetter("set_time_horizon", T, set_time_horizon(algo, T))

CallSetInventoryPenalty ==
    \E kappa \in Kappas :
       CalledSetter("set_inventory_penalty", kappa,
                    set_inventory_penalty(algo, kappa))

\* calculate_quotes of the tick of the tests, with the parameters as set.
CallQuote ==
    /\ calls < MaxSets
    /\ \E tick \in BatchTicks, inventory \in TestInventories :
          /\ arg' = [tick |-> tick, inventory |-> inventory]
          /\ ret' = calculate_quotes(algo, tick, inventory)
    /\ call' = "calculate_quotes"
    /\ calls' = calls + 1
    /\ UNCHANGED <<tracker_vars, engine_vars, algo, estimator, benchmark, websocket>>

ParamsNext ==
    \/ CallSetRiskAversion
    \/ CallSetVolatility
    \/ CallSetTimeHorizon
    \/ CallSetInventoryPenalty
    \/ CallQuote

SpecParams == DriverInit /\ [][ParamsNext]_vars

\* C28: a call of calculate_quotes with inventory q > 0 returns a bid and an
\* ask both strictly below those the same object returns for the same tick
\* with q = 0, with q < 0 both strictly above; with q = 0 the bid is as far
\* below the mid of the tick as the ask is above it; and ask - bid is the
\* same as with q = 0, whatever q.
C28_InventorySkewsBothSides ==
    [][call' = "calculate_quotes"
          => LET q == arg'.inventory
                 neutral == calculate_quotes(algo, arg'.tick, 0)
                 mid == mid_price(arg'.tick)
             IN  /\ q > 0 => /\ ret'.bid_price < neutral.bid_price
                             /\ ret'.ask_price < neutral.ask_price
                 /\ q < 0 => /\ ret'.bid_price > neutral.bid_price
                             /\ ret'.ask_price > neutral.ask_price
                 /\ q = 0 => mid - ret'.bid_price = ret'.ask_price - mid
                 /\ ret'.ask_price - ret'.bid_price =
                       neutral.ask_price - neutral.bid_price
                 /\ ret'.ask_price > ret'.bid_price]_vars

\* C28 witness: with gamma set to 0.2, calculate_quotes was asked for a long
\* inventory of 2 and returned a bid and an ask whose midpoint is below the
\* mid of the tick, the ask still above it.
C28_Witness ==
    /\ call = "calculate_quotes"
    /\ algo.gamma_ = Dec(0, 2000)
    /\ arg.inventory = Dec(2, 0)
    /\ ret.bid_price + ret.ask_price < 2 * mid_price(arg.tick)
    /\ ret.ask_price > mid_price(arg.tick)

\* C29: after construction and after any calls of the four setters the
\* precomputed constants are those of the parameters held:
\* gamma_sigma_sq_ = gamma_ * sigma_^2, log_constant_ = ln(1 + gamma_/kappa_)
\* and gamma_inv_ = 2 / gamma_.
C29_ConstantsOfParameters ==
    /\ algo.gamma_sigma_sq_ =
          MulDiv(FMul(algo.gamma_, algo.sigma_), algo.sigma_, (PS * PS) \div GS)
    /\ algo.log_constant_ =
          Ln(VS \div 2 + MulDiv(algo.gamma_, VS \div 2, algo.kappa_), VS \div 2)
    /\ algo.gamma_inv_ = FDiv(Dec(2, 0), algo.gamma_)

\* C29 witness: three setters have been called, gamma, sigma and kappa are
\* not the
\* constructor's, and the constants are not the constructor's either.
C29_Witness ==
    /\ calls = 3
    /\ algo.gamma_ = Dec(0, 2000)
    /\ algo.sigma_ = Dec(0, 200)
    /\ algo.kappa_ = Dec(2, 0)
    /\ algo.gamma_sigma_sq_ # AvellanedaStoikov.gamma_sigma_sq_
    /\ algo.log_constant_ # AvellanedaStoikov.log_constant_
    /\ algo.gamma_inv_ = Dec(10, 0)

\* The quote the quoting step of this RECEIVE step tests with is_valid: the
\* generated quote after the spread widening.
UsedQuote == WidenSpread(trading_data', GeneratedQuote, PositionQuoted)

\* The quote has numbers for prices, both positive, ask above bid, and
\* positive sizes.
Sound(quote) ==
    /\ IsFinite(quote.bid_price)
    /\ IsFinite(quote.ask_price)
    /\ quote.bid_price > 0
    /\ quote.ask_price > quote.bid_price
    /\ quote.bid_size > 0
    /\ quote.ask_size > 0

\* C30: in a quoting step that passes the kill switch, a quote with positive
\* prices, ask > bid and positive sizes is counted and is the quote of any
\* fill made; any other quote is skipped: no quote counted, no fill made, the
\* tracker and with it the position left as they were.
C30_OnlySoundQuotesUsed ==
    [][QuotingReceive /\ ~trading_data'.should_stop
          => IF Sound(UsedQuote)
             THEN /\ trading_data'.quote_count = trading_data.quote_count + 1
                  /\ trading_data'.fill_count > trading_data.fill_count
                        => fill'.price \in {UsedQuote.bid_price, UsedQuote.ask_price}
             ELSE /\ trading_data'.quote_count = trading_data.quote_count
                  /\ trading_data'.fill_count = trading_data.fill_count
                  /\ pnl_tracker' = pnl_tracker]_vars

\* C30 witness: holding 0.05 after 50 frames, the engine got the book of
\* negative prices as its 60th frame; the quote came out NaN and was skipped:
\* 5 quotes counted in 6 quoting steps, 5 fills, position 0.05.
C30_Witness ==
    /\ trading_data.count = 60
    /\ trading_data.bid < 0
    /\ ret.quote.bid_price = NaN
    /\ trading_data.quote_count = 5
    /\ trading_data.fill_count = 5
    /\ EnginePos(trading_data, pnl_tracker).quantity = Dec(0, 500)

\* C31 as claimed: each of the first 1000 frames is validated, so that after
\* n <= 1000 frames n validations have been made, 1000 when the parser is
\* switched.
C31_EveryFrameValidated ==
    trading_data.fast_json_validation_count =
       IF trading_data.count <= 1000 THEN trading_data.count ELSE 1000

\* C31 as the code has it: of the first 1000 frames the 100th, 200th, ...,
\* 1000th are validated and no other, so that after n frames n \div 100
\* validations have been made, at most 10; the fast parser is on only from
\* frame 1000 on, with 10 validations made.
C31_EveryHundredthFrameValidated ==
    /\ trading_data.fast_json_validation_count =
          (IF trading_data.count <= 1000 THEN trading_data.count ELSE 1000) \div 100
    /\ trading_data.fast_json_validation_passed
          <= trading_data.fast_json_validation_count
    /\ trading_data.use_fast_json_parser
          => /\ trading_data.count >= 1000
             /\ trading_data.fast_json_validation_count = 10

\* C31 witness: the parser has just been switched at frame 1000, on 10
\* validations.
C31_Witness ==
    /\ trading_data.count = 1000
    /\ trading_data.use_fast_json_parser
    /\ trading_data.fast_json_validation_count = 10

\* ------------------------------------------------------------------------
\* The tick writer on its own, with a store that may refuse a batch
\* ------------------------------------------------------------------------

\* Calls made of the tick writer.
MaxWrites == 120

\* What system() returns for the INSERT of a batch: 0, or 1 when the store
\* has refused it.
StoreResults == {0, 1}

\* What flushDatabaseBatch writes to std::cout and std::cerr, given the
\* result of its command: nothing.
FlushOutput(result) == <<>>

\* TradingData with the book 40000.00 / 40001.00 parsed.
SinkInit ==
    /\ TrackerInit
    /\ call = "none"
    /\ calls = 0
    /\ trading_data = [TradingData(0, 0, 0, 0, 0, 0) EXCEPT
                          !.bid = Dec(40000, 0), !.ask = Dec(40001, 0),
                          !.bid_qty = Dec(1, 5000), !.ask_qty = Dec(1, 5000)]
    /\ database = EmptyDatabase
    /\ kill_switch_activated = 0
    /\ pc = "test"
    /\ conn = "closed"
    /\ moves = 0
    /\ crossed_at = 0
    /\ algo = AvellanedaStoikov
    /\ estimator = EWMACalculator(0, 0)
    /\ arg = <<>>
    /\ ret = <<>>
    /\ benchmark = LatencyBenchmark
    /\ websocket = BinanceWebSocket("BTCUSDT")

\* A call of the sink has returned with out = <<data, database>>; ran tells
\* whether it ran the INSERT of a batch, result is what system() returned
\* for it, kept with what the call printed in ret.
SinkReturned(name, out, result) ==
    /\ trading_data' = out[1]
    /\ database' = out[2]
    /\ arg' = trading_data.pending_db_writes
    /\ ret' = IF out[2] # database
              THEN [ran |-> TRUE, result |-> result, printed |-> FlushOutput(result)]
              ELSE [ran |-> FALSE, result |-> 0, printed |-> <<>>]
    /\ call' = name
    /\ calls' = calls + 1
    /\ pc' = IF name = "flushDatabaseBatch" THEN "done" ELSE pc
    /\ UNCHANGED <<tracker_vars, kill_switch_activated, conn, moves,
                   crossed_at, algo, estimator, benchmark, websocket>>

\* writeMarketTickToDatabase(data), the store answering its flush, if it
\* makes one, with any result
CallWriteMarketTick ==
    /\ pc = "test"
    /\ calls < MaxWrites
    /\ \E result \in StoreResults :
          SinkReturned("writeMarketTickToDatabase",
                       writeMarketTickToDatabase(trading_data, database), result)

\* flushDatabaseBatch(data), as main() calls it once, when the duration has
\* elapsed
CallFlush ==
    /\ pc = "test"
    /\ \E result \in StoreResults :
          SinkReturned("flushDatabaseBatch",
                       flushDatabaseBatch(trading_data, database), result)

SinkNext == CallWriteMarketTick \/ CallFlush

SpecSink == SinkInit /\ [][SinkNext]_vars

\* C32 as claimed: after a call that ran the INSERT of a batch, accepted or
\* not, the pending buffer is empty and its counter 0, and a refusal has been
\* logged.
C32_FailedFlushLoggedAndCleared ==
    (call # "none" /\ ret.ran)
       => /\ trading_data.pending_db_writes = <<>>
          /\ trading_data.db_batch_count = 0
          /\ ret.result # 0 => ret.printed # <<>>

\* ------------------------------------------------------------------------
\* The session row and its terminal update
\* ------------------------------------------------------------------------

\* C34 as claimed: a frame is handled, and a terminal session update is
\* emitted, only after the session-start row (status running) was inserted.
C34_StartRowBeforeTerminalUpdate ==
    /\ trading_data.count > 0 => database.simulation_sessions # <<>>
    /\ database.session_updates # <<>> => database.simulation_sessions # <<>>

\* ------------------------------------------------------------------------
\* The engine after its kill switch has tripped, frames still arriving
\* ------------------------------------------------------------------------

\* Most frames handled in one run, those after the trip included.
MaxStopped == 50

\* Most changes of the top of book in one run.
MaxStoppedMoves == 2

\* The book of frame k on the way to the trip: 40000.00 / 40001.00 up to
\* frame 10, 38900.00 / 38901.00 after it.
TripBook(k) == IF k <= 10 THEN HighBook ELSE LowBook

\* The draw of frame k on the way to the trip: 0.01 at frame 10, which fills
\* the bid, and 0.5 after it.
TripDraw(k) == IF k = 10 THEN Dec(0, 100) ELSE Dec(0, 5000)

\* main() up to its service loop.
StoppedInit ==
    /\ TrackerInit
    /\ call = "none"
    /\ calls = 0
    /\ trading_data = TradingData(0, 0, 0, 0, 0, 0)
    /\ database = EmptyDatabase
    /\ kill_switch_activated = 0
    /\ pc = "service"
    /\ conn = "connecting"
    /\ moves = 0
    /\ crossed_at = 0
    /\ UnitInit

\* LWS_CALLBACK_CLIENT_RECEIVE for the next frame on the way to the trip.
ReceiveTripping ==
    /\ pc = "service"
    /\ conn = "established"
    /\ kill_switch_activated = 0
    /\ trading_data.count < MaxStopped
    /\ \E k \in {trading_data.count + 1} :
          ReceiveFrame(FrameOf(TripBook(k)), TripDraw(k))
    /\ UNCHANGED <<driver_vars, pc, conn, unit_vars>>

\* LWS_CALLBACK_CLIENT_RECEIVE for a frame delivered after the kill switch
\* has tripped and before main() has looked at the stop flag: any book of the
\* feed, any draw.
ReceiveStopped ==
    /\ pc = "service"
    /\ conn = "established"
    /\ kill_switch_activated > 0
    /\ trading_data.count < MaxStopped
    /\ \E json \in Frames,
          random_val \in (IF (trading_data.count + 1) % 10 = 0
                          THEN RandomVals ELSE {0}) :
          /\ ReceiveFrame(json, random_val)
          /\ moves' <= MaxStoppedMoves
    /\ UNCHANGED <<driver_vars, pc, conn, unit_vars>>

StoppedNext ==
    \/ Established
    \/ ReceiveTripping
    \/ ReceiveStopped
    \/ ConnectionError
    \/ Closed
    \/ ServiceLoop

SpecStopped == StoppedInit /\ [][StoppedNext]_vars

\* C35: once the kill switch has tripped, a frame handled later applies no
\* fill and leaves the tracker, and with it the position and the total P&L,
\* as it was.
C35_NothingTradedAfterTrip ==
    [][(kill_switch_activated > 0 /\ ReceiveStep)
       => /\ pnl_tracker' = pnl_tracker
          /\ fill' = fill
          /\ trading_data'.fill_count = trading_data.fill_count
          /\ trading_data'.quote_count = trading_data.quote_count]_vars

\* C35 witness: twenty frames were handled after the trip at frame 30, the
\* book back where the position was bought, and the kill switch has tripped
\* again at frames 40 and 50; main() has not yet looked at the stop flag.
C35_Witness ==
    /\ kill_switch_activated = 3
    /\ trading_data.count = 50
    /\ pc = "service"
    /\ <<trading_data.bid, trading_data.ask>> = <<Dec(40000, 0), Dec(40001, 0)>>
    /\ EnginePos(trading_data, pnl_tracker).quantity # 0
    /\ AtKillThreshold

\* ------------------------------------------------------------------------
\* Termination of the engine
\* ------------------------------------------------------------------------

\* A pass of the service loop that leaves the stop flag set: the clock has
\* passed duration_seconds, or a callback had set the flag before.
StoppingPass == ServiceLoop /\ trading_data'.should_stop

\* The engine, in the run that trips its kill switch, with a main loop that
\* keeps running: every call of lws_service returns (it is given a timeout of
\* 50 ms) and the steady clock advances, so a pass whose clock reading is at
\* or past duration_seconds comes.
SpecService == SpecStopped /\ WF_vars(StoppingPass)

\* C33: the stop flag, once set, is never cleared; main() leaves its service
\* loop only with the flag set; and, every call of lws_service returning, the
\* engine comes to leave the loop.
C33_AlwaysTerminates ==
    /\ [][trading_data.should_stop => trading_data'.should_stop]_vars
    /\ [](Finished => trading_data.should_stop)
    /\ <>Finished

\* C33 witness: the engine has left its loop at the end of its duration, the
\* connection still established and the kill switch untripped, after frames
\* were handled.
C33_Witness ==
    /\ Finished
    /\ trading_data.should_stop
    /\ conn = "established"
    /\ kill_switch_activated = 0
    /\ trading_data.count >= 10
    /\ Len(database.session_updates) = 1

\* ------------------------------------------------------------------------
\* The quote row against the quote the fills were simulated with
\* ------------------------------------------------------------------------

\* C36 as claimed: the quote row a RECEIVE step appends when it counts a
\* quote has the bid and the ask of the quote its fills were simulated
\* against, the generated quote after widening, and the position that quote
\* was computed from.
C36_QuoteRowIsQuoteUsed ==
    [][(ReceiveStep /\ QuoteCounted)
       => /\ Len(database'.as_quotes) = Len(database.as_quotes) + 1
          /\ LET row == database'.as_quotes[Len(database'.as_quotes)]
             IN  /\ row.our_bid = UsedQuote.bid_price
                 /\ row.our_ask = UsedQuote.ask_price
                 /\ row.position = PositionQuoted.quantity]_vars

\* ------------------------------------------------------------------------
\* The range of the spread multiplier
\* ------------------------------------------------------------------------

\* C37 as claimed: the quote a quoting step uses has at least the spread of
\* the generated quote and at most max_spread_multiplier (3.0) times it (to
\* one unit of the price grid), whatever the position.
C37_MultiplierWithinOneAndMax ==
    [][(QuotingReceive /\ QuoteCounted)
       => /\ spread(ret'.quote) >= spread(GeneratedQuote)
          /\ spread(ret'.quote)
                <= FMul(spread(GeneratedQuote), trading_data'.max_spread_multiplier) + 1]_vars

\* ------------------------------------------------------------------------
\* The unrealized P&L of a closed position
\* ------------------------------------------------------------------------

\* C38 as claimed: after any calls of update_fill and update_market_price, a
\* position of quantity 0 has unrealized P&L 0.
C38_ClosedPositionHasNoUnrealizedPnl ==
    \A sym \in DOMAIN pnl_tracker.positions_ :
       pnl_tracker.positions_[sym].quantity = 0
          => pnl_tracker.positions_[sym].unrealized_pnl = 0

\* ------------------------------------------------------------------------
\* A BinanceWebSocket driven on its own: its owner, its receive thread and
\* the callers of receive_tick and try_receive_tick
\* ------------------------------------------------------------------------

\* Frames the stream sends in all.
MaxFrames == 1002

\* Calls of receive_tick and try_receive_tick in all.
MaxTakes == 2

\* The k-th bookTicker message of the stream: bid k, ask k + 1.
StreamFrame(k) ==
    Frame({"b", "a", "s", "B", "A"}, Decimal(FALSE, k, 1), Decimal(FALSE, k + 1, 1),
          "BTCUSDT", Decimal(FALSE, 150, 100), Decimal(FALSE, 150, 100))

\* How far a call of connect() may get.
ConnectOutcomes == {"socket", "resolve", "connect", "handshake", "ok"}

\* The object constructed, nothing called.  arg counts the frames
\* receive_frame has returned and names the latest that gave a tick; ret is
\* the list of the ticks returned to callers.
SocketInit ==
    /\ TrackerInit
    /\ call = "none"
    /\ calls = 0
    /\ trading_data = TradingData(0, 0, 0, 0, 0, 0)
    /\ database = EmptyDatabase
    /\ kill_switch_activated = 0
    /\ pc = "test"
    /\ conn = "closed"
    /\ moves = 0
    /\ crossed_at = 0
    /\ algo = AvellanedaStoikov
    /\ estimator = EWMACalculator(0, 0)
    /\ arg = [frames |-> 0, pushed |-> 0]
    /\ ret = <<>>
    /\ benchmark = LatencyBenchmark
    /\ websocket = BinanceWebSocket("BTCUSDT")

\* What no step of the object touches.
SocketFrame ==
    UNCHANGED <<tracker_vars, trading_data, database, kill_switch_activated, conn,
                moves, crossed_at, algo, estimator, benchmark>>

\* The queue is nearly full, or fuller: the callers of receive_tick and
\* try_receive_tick act from now on.
Late == arg.frames >= QUEUE_LIMIT - 1

\* The owner acts now, and recv may fail now: before the first frame, or
\* late.
ActNow == arg.frames = 0 \/ Late

\* The object lives: its destructor has not run to its end.
Alive == pc \in {"test", "joining", "destroying"}

\* connect().  Started again after the receive loop has ended by itself, it
\* assigns a thread to receive_thread_, which is joinable: std::terminate.
CallConnect ==
    /\ pc = "test"
    /\ ActNow
    /\ \E outcome \in ConnectOutcomes :
          IF outcome = "ok" /\ ~websocket.connected_ /\ joinable(websocket)
          THEN /\ pc' = "terminated"
               /\ websocket' = websocket
          ELSE /\ pc' = pc
               /\ websocket' = connect(websocket, outcome)[1]
    /\ call' = "connect"
    /\ UNCHANGED <<calls, arg, ret>>
    /\ SocketFrame

\* The receive thread at while (!should_stop_ && connected_).
LoopTest ==
    /\ Alive
    /\ websocket.receive_thread_ = "loop"
    /\ websocket' =
          [websocket EXCEPT !.receive_thread_ =
              IF ~websocket.should_stop_ /\ websocket.connected_
              THEN "recv" ELSE "finished"]
    /\ UNCHANGED <<call, calls, arg, ret, pc>>
    /\ SocketFrame

\* The receive thread from the return of receive_frame to the next test of
\* its loop.  The stream sends its next message; when the owner acts, recv
\* may also fail or give a payload that is no JSON.
ReceiveLoop ==
    /\ Alive
    /\ websocket.receive_thread_ = "recv"
    /\ arg.frames < MaxFrames
    /\ \E frame_data \in {StreamFrame(arg.frames + 1)}
                           \cup (IF ActNow THEN {EmptyFrame, NotJSON} ELSE {}) :
          /\ websocket' = receive_loop(websocket, frame_data)
          /\ arg' = [frames |-> arg.frames + 1,
                     pushed |-> IF frame_data \in {EmptyFrame, NotJSON}
                                THEN arg.pushed ELSE arg.frames + 1]
    /\ UNCHANGED <<call, calls, ret, pc>>
    /\ SocketFrame

\* receive_tick() returns: a tick was queued, or the object is disconnected.
CallReceiveTick ==
    /\ Alive
    /\ Late
    /\ calls < MaxTakes
    /\ websocket.tick_queue_ # <<>> \/ ~websocket.connected_
    /\ websocket' = receive_tick(websocket)[1]
    /\ ret' = Append(ret, receive_tick(websocket)[2])
    /\ call' = "receive_tick"
    /\ calls' = calls + 1
    /\ UNCHANGED <<arg, pc>>
    /\ SocketFrame

\* try_receive_tick(tick)
CallTryReceiveTick ==
    /\ Alive
    /\ Late
    /\ calls < MaxTakes
    /\ LET out == try_receive_tick(websocket, MarketTick("", 0, 0, 0, 0))
       IN  /\ websocket' = out[1]
           /\ ret' = IF out[3] THEN Append(ret, out[2]) ELSE ret
    /\ call' = "try_receive_tick"
    /\ calls' = calls + 1
    /\ UNCHANGED <<arg, pc>>
    /\ SocketFrame

\* disconnect() up to its join; it returns at once when connected_ is false.
CallDisconnect ==
    /\ pc = "test"
    /\ ActNow
    /\ IF websocket.connected_
       THEN /\ websocket' = disconnect_flags(websocket)
            /\ pc' = "joining"
       ELSE UNCHANGED <<websocket, pc>>
    /\ call' = "disconnect"
    /\ UNCHANGED <<calls, arg, ret>>
    /\ SocketFrame

\* ~BinanceWebSocket(): disconnect() and then the members' destructors; that
\* of a joinable std::thread calls std::terminate.
Destroy ==
    /\ pc = "test"
    /\ ActNow
    /\ IF websocket.connected_
       THEN /\ websocket' = disconnect_flags(websocket)
            /\ pc' = "destroying"
       ELSE /\ websocket' = websocket
            /\ pc' = IF joinable(websocket) THEN "terminated" ELSE "destroyed"
    /\ call' = "~BinanceWebSocket"
    /\ UNCHANGED <<calls, arg, ret>>
    /\ SocketFrame

\* receive_thread_.join() returns, the receive thread having finished, and
\* disconnect() closes the socket.
Join ==
    /\ pc \in {"joining", "destroying"}
    /\ websocket.receive_thread_ = "finished"
    /\ websocket' = disconnect_join(websocket)
    /\ pc' = IF pc = "joining" THEN "test" ELSE "destroyed"
    /\ UNCHANGED <<call, calls, arg, ret>>
    /\ SocketFrame

SocketNext ==
    \/ CallConnect
    \/ LoopTest
    \/ ReceiveLoop
    \/ CallReceiveTick
    \/ CallTryReceiveTick
    \/ CallDisconnect
    \/ Destroy
    \/ Join

SpecSocket == SocketInit /\ [][SocketNext]_vars

\* The ticks returned to callers that came from the queue: not the dummy tick
\* of a disconnected object.
TakenFromQueue ==
    LET FromQueue(tick) == tick.bid_price # 0
    IN  SelectSeq(ret, FromQueue)

\* C39: under every interleaving of the receive thread with the callers of
\* receive_tick and try_receive_tick, the queue holds at most 1000 ticks
\* whenever no push is under way; the ticks returned to callers, followed by
\* the ticks queued, are in arrival order without repetition, so no tick is
\* returned twice or out of order; and the queue ends with the latest tick
\* received, so what was discarded was the oldest.
C39_QueueBoundedFifoOnce ==
    LET queue == websocket.tick_queue_
        all   == TakenFromQueue \o queue
    IN  /\ Len(queue) <= QUEUE_LIMIT
        /\ \A i \in 1 .. Len(all) - 1 : all[i].bid_price < all[i + 1].bid_price
        /\ queue # <<>> => queue[Len(queue)].bid_price = Dec(arg.pushed, 0)

\* C39 witness: the 1001st tick has pushed the first out of the full queue,
\* two callers have then been given the second and the third, and the 1002nd
\* tick has been queued behind the 999 left.
C39_Witness ==
    /\ arg.pushed = 1002
    /\ Len(ret) = 2
    /\ ret[1].bid_price = Dec(2, 0)
    /\ ret[2].bid_price = Dec(3, 0)
    /\ Len(websocket.tick_queue_) = 999
    /\ Head(websocket.tick_queue_).bid_price = Dec(4, 0)

\* disconnect() has returned to its caller.
DisconnectReturned == pc = "test" /\ call = "disconnect"

\* C40 as claimed: once connect() has started the receive thread, a
\* disconnect() that has returned has joined it, and no destructor finds it
\* joinable, whether or not the receive loop had ended by itself before.
C40_DisconnectAlwaysJoins ==
    /\ DisconnectReturned => ~joinable(websocket)
    /\ pc # "terminated"
====
